---------------------------- MODULE Spec2Model ----------------------------
(***************************************************************************)
(* A model of gospeak (src/gospeak.go): the goSpeaker object, its public   *)
(* operations (Load.., Set.., Speak..), the range filter (isInRange and    *)
(* friends) and the recursive narration of a go/ast tree into the speech   *)
(* buffer.                                                                 *)
(*                                                                         *)
(* Text.  A Go string that is inspected character by character (an         *)
(* identifier, a literal's value, the source text) is a sequence of        *)
(* one-character strings ("runes").  A Go string that is spoken is a       *)
(* sequence of chunks: every blank (" " or "\n") is a chunk of its own and *)
(* every maximal run of other characters is one chunk, so two spoken       *)
(* strings are equal exactly when their bytes are.  The speech buffer is   *)
(* the sequence of the phrases passed to speak; each stands for the phrase *)
(* followed by "{pause}\n".                                                *)
(*                                                                         *)
(* Positions.  Every node carries the line of its Pos() and of its End();  *)
(* the code reads positions only through fileSet.Position(..).Line, except *)
(* for the byte offsets of Bad nodes, which those nodes carry as well.     *)
(***************************************************************************)
EXTENDS Integers, Sequences, FiniteSets, TLC

VARIABLES
    skipImports,     \* goSpeaker.skipImports
    targetFunction,  \* goSpeaker.targetFunction (runes; <<>> is "")
    startLine,       \* goSpeaker.startLine
    endLine,         \* goSpeaker.endLine
    speechBuffer,    \* goSpeaker.speechBuffer, as the sequence of phrases
    fileBuffer,      \* goSpeaker.fileBuffer (runes)
    functionStack,   \* goSpeaker.functionStack
    file,            \* goSpeaker.file: a File node, or Nil
    panicked,        \* the goroutine died in a run-time panic
    other,           \* the goSpeaker of a second MakeGoSpeaker call, as a record
    last             \* history: the last public call and the state before it

vars == <<skipImports, targetFunction, startLine, endLine, speechBuffer,
          fileBuffer, functionStack, file, panicked, other, last>>

-----------------------------------------------------------------------------
(* Bounds of the model.                                                    *)

\* The number of calls made on the speaker in one behaviour.
MaxCalls == 3
\* The number of calls made on two speakers together in one behaviour.
TwoCalls == 4
\* The number of if statements in the longest if / else-if chain.
MaxChain == 3
\* The last line of the longest source; the largest line offered to SetRange
\* and SpeakRange.
MaxLine == 8
\* The most expressions on one side of an assignment.
MaxSides == 3

-----------------------------------------------------------------------------
(* Text.                                                                   *)

Lower == <<"a","b","c","d","e","f","g","h","i","j","k","l","m",
           "n","o","p","q","r","s","t","u","v","w","x","y","z">>
Upper == <<"A","B","C","D","E","F","G","H","I","J","K","L","M",
           "N","O","P","Q","R","S","T","U","V","W","X","Y","Z">>

Range(s) == {s[i] : i \in DOMAIN s}

\* unicode.IsLetter, on the alphabet of the model
IsLetter(ch) == ch \in Range(Lower) \cup Range(Upper)

\* strings.ToLower, rune by rune
ToLowerRune(ch) ==
    IF ch \in Range(Upper)
    THEN Lower[CHOOSE i \in DOMAIN Upper : Upper[i] = ch]
    ELSE ch

IsBlank(ch) == ch \in {" ", "\n"}

RECURSIVE Flat(_)
\* string(runes): the runes as one string
Flat(rs) == IF rs = <<>> THEN "" ELSE Head(rs) \o Flat(Tail(rs))

\* a + b on spoken strings: the chunks at the seam merge unless one is a blank
Cat(a, b) ==
    IF a = <<>> THEN b
    ELSE IF b = <<>> THEN a
    ELSE LET x == a[Len(a)]
             y == Head(b)
         IN  IF IsBlank(x) \/ IsBlank(y)
             THEN a \o b
             ELSE SubSeq(a, 1, Len(a) - 1) \o <<x \o y>> \o Tail(b)

RECURSIVE RunesToStr(_)
\* the spoken string with the bytes of the runes
RunesToStr(rs) ==
    IF rs = <<>> THEN <<>> ELSE Cat(<<Head(rs)>>, RunesToStr(Tail(rs)))

\* strings.Join(parts, " ") on spoken strings
RECURSIVE JoinSp(_)
JoinSp(parts) ==
    IF parts = <<>> THEN <<>>
    ELSE IF Len(parts) = 1 THEN parts[1]
    ELSE Cat(Cat(parts[1], <<" ">>), JoinSp(Tail(parts)))

Digits == <<"0","1","2","3","4","5","6","7","8","9">>

\* strconv.Itoa, for n >= 0
RECURSIVE Itoa(_)
Itoa(n) == IF n < 10 THEN Digits[n + 1] ELSE Itoa(n \div 10) \o Digits[(n % 10) + 1]

\* the map symbolTranslations
symbolTranslations ==
    [k \in {"os", "github", "fmt", "printf", "sprintf", "fprintf", ".", ",",
            "/", "\\", "utf", "ast", "a", "strconv", "_"} |->
        CASE k = "os"      -> <<"oh", " ", "ess">>
          [] k = "github"  -> <<"git", " ", "hub">>
          [] k = "fmt"     -> <<"fumt">>
          [] k = "printf"  -> <<"print", " ", "f">>
          [] k = "sprintf" -> <<"s", " ", "print", " ", "f">>
          [] k = "fprintf" -> <<"f", " ", "print", " ", "f">>
          [] k = "."       -> <<"dot">>
          [] k = ","       -> <<"comma">>
          [] k = "/"       -> <<"slash">>
          [] k = "\\"      -> <<"backslash">>
          [] k = "utf"     -> <<"you", " ", "tee", " ", "f">>
          [] k = "ast"     -> <<"eigh", " ", "s", " ", "t">>
          [] k = "a"       -> <<"eigh">>
          [] k = "strconv" -> <<"stir", " ", "conv">>
          [] k = "_"       -> <<"none">>]

\* splitSymbol's loop: symbols so far, the letters of the current run, the rest
RECURSIVE splitLoop(_, _, _)
splitLoop(symbols, currSymbol, rest) ==
    IF rest = <<>>
    THEN IF Len(currSymbol) > 0 THEN Append(symbols, currSymbol) ELSE symbols
    ELSE LET ch == Head(rest)
         IN  IF IsLetter(ch)
             THEN splitLoop(symbols, Append(currSymbol, ch), Tail(rest))
             ELSE IF Len(currSymbol) > 0
             THEN splitLoop(symbols \o <<currSymbol, <<ch>> >>, <<>>, Tail(rest))
             ELSE splitLoop(Append(symbols, <<ch>>), <<>>, Tail(rest))

\* splitSymbol: maximal runs of letters, and every other character alone
splitSymbol(symbol) == splitLoop(<<>>, <<>>, symbol)

\* translateSymbols: a symbol whose lower-case form is in the table is replaced
translateSymbols(symbols) ==
    [i \in DOMAIN symbols |->
        LET key == Flat([j \in DOMAIN symbols[i] |-> ToLowerRune(symbols[i][j])])
        IN  IF key \in DOMAIN symbolTranslations
            THEN symbolTranslations[key]
            ELSE RunesToStr(symbols[i])]

symbolToSpeech(sym) == JoinSp(translateSymbols(splitSymbol(sym)))

\* speakableFilename: a trailing ".go" is spoken " dot go"
speakableFilename(filename) ==
    LET n == Len(filename)
    IN  IF n >= 3 /\ SubSeq(filename, n - 2, n) = <<".", "g", "o">>
        THEN Cat(RunesToStr(SubSeq(filename, 1, n - 3)), <<" ", "dot", " ", "go">>)
        ELSE RunesToStr(filename)

-----------------------------------------------------------------------------
(* go/ast nodes, as the parser builds them.  line and eline are the lines  *)
(* of Pos() and End(); a position field (OpPos, Lparen, ...) is its line.  *)

\* a nil pointer or nil interface
Nil == [kind |-> "nil"]

Ident(name, l) == [kind |-> "Ident", name |-> name, line |-> l, eline |-> l]

BasicLit(value, l) == [kind |-> "BasicLit", value |-> value, line |-> l, eline |-> l]

SelectorExpr(x, sel) ==
    [kind |-> "SelectorExpr", x |-> x, sel |-> sel, line |-> x.line, eline |-> sel.eline]

\* a call without a spread argument: Ellipsis is token.NoPos
CallExpr(fun, args, lparenLine, el) ==
    [kind |-> "CallExpr", fun |-> fun, args |-> args, lparenLine |-> lparenLine,
     ellipsisOff |-> 0, ellipsisLine |-> 0, line |-> fun.line, eline |-> el]

\* the node n, with the byte offset of its Pos()
At(n, off) ==
    [f \in DOMAIN n \cup {"off"} |-> IF f = "off" THEN off ELSE n[f]]

\* a call whose last argument is spread, "f(args...)": Ellipsis is the
\* position of the "..." token, which the parser meets after the last argument
SpreadCall(fun, args, lparenLine, ellipsisOff, ellipsisLine, el) ==
    [kind |-> "CallExpr", fun |-> fun, args |-> args, lparenLine |-> lparenLine,
     ellipsisOff |-> ellipsisOff, ellipsisLine |-> ellipsisLine, line |-> fun.line,
     eline |-> el]

StarExpr(x, l) == [kind |-> "StarExpr", x |-> x, line |-> l, eline |-> x.eline]

TypeAssertExpr(x, type, el) ==
    [kind |-> "TypeAssertExpr", x |-> x, type |-> type, line |-> x.line, eline |-> el]

ArrayType(len, elt, l) ==
    [kind |-> "ArrayType", len |-> len, elt |-> elt, line |-> l, eline |-> elt.eline]

CompositeLit(type, elts, lbraceLine, el) ==
    [kind |-> "CompositeLit", type |-> type, elts |-> elts, lbraceLine |-> lbraceLine,
     line |-> IF type # Nil THEN type.line ELSE lbraceLine, eline |-> el]

Field(names, type, tag) ==
    [kind |-> "Field", names |-> names, type |-> type, tag |-> tag,
     line |-> IF Len(names) > 0 THEN names[1].line ELSE type.line,
     eline |-> IF tag # Nil THEN tag.eline ELSE type.eline]

TypeSpec(name, type) ==
    [kind |-> "TypeSpec", name |-> name, type |-> type, line |-> name.line,
     eline |-> type.eline]

StructType(fields, l, el) ==
    [kind |-> "StructType", fields |-> fields, line |-> l, eline |-> el]

InterfaceType(methods, l, el) ==
    [kind |-> "InterfaceType", methods |-> methods, line |-> l, eline |-> el]

FieldList(list, l, el) == [kind |-> "FieldList", list |-> list, line |-> l, eline |-> el]

FuncType(params, results, l, el) ==
    [kind |-> "FuncType", params |-> params, results |-> results, line |-> l, eline |-> el]

BlockStmt(list, l, el) == [kind |-> "BlockStmt", list |-> list, line |-> l, eline |-> el]

ExprStmt(x) == [kind |-> "ExprStmt", x |-> x, line |-> x.line, eline |-> x.eline]

BranchStmt(tok, label, l) ==
    [kind |-> "BranchStmt", tok |-> tok, label |-> label, line |-> l,
     eline |-> IF label # Nil THEN label.eline ELSE l]

ImportSpec(name, path) ==
    [kind |-> "ImportSpec", name |-> name, path |-> path,
     line |-> IF name # Nil THEN name.line ELSE path.line, eline |-> path.eline]

ValueSpec(names, type, values) ==
    [kind |-> "ValueSpec", names |-> names, type |-> type, values |-> values,
     line |-> names[1].line,
     eline |-> IF Len(values) > 0 THEN values[Len(values)].eline
               ELSE IF type # Nil THEN type.eline
               ELSE names[Len(names)].eline]

GenDecl(tok, specs, l, el) ==
    [kind |-> "GenDecl", tok |-> tok, specs |-> specs, line |-> l, eline |-> el]

FuncDecl(recv, name, type, body) ==
    [kind |-> "FuncDecl", recv |-> recv, name |-> name, type |-> type, body |-> body,
     line |-> type.line, eline |-> IF body # Nil THEN body.eline ELSE type.eline]

DeclStmt(decl) == [kind |-> "DeclStmt", decl |-> decl, line |-> decl.line, eline |-> decl.eline]

FuncLit(type, body) ==
    [kind |-> "FuncLit", type |-> type, body |-> body, line |-> type.line,
     eline |-> body.eline]

\* From and To are byte offsets into the source
BadDecl(from, to, l, el) ==
    [kind |-> "BadDecl", from |-> from, to |-> to, line |-> l, eline |-> el]

File(filename, name, imports, decls, l) ==
    [kind |-> "File", filename |-> filename, name |-> name, imports |-> imports,
     decls |-> decls, line |-> l,
     eline |-> IF Len(decls) > 0 THEN decls[Len(decls)].eline ELSE l]

AssignStmt(lhs, rhs) ==
    [kind |-> "AssignStmt", lhs |-> lhs, rhs |-> rhs,
     line |-> lhs[1].line, eline |-> rhs[Len(rhs)].eline]

IncDecStmt(x, tok) == [kind |-> "IncDecStmt", x |-> x, tok |-> tok, line |-> x.line, eline |-> x.eline]

BinaryExpr(x, op, y) ==
    [kind |-> "BinaryExpr", x |-> x, op |-> op, opLine |-> x.eline, y |-> y,
     line |-> x.line, eline |-> y.eline]

UnaryExpr(op, x) ==
    [kind |-> "UnaryExpr", op |-> op, opLine |-> x.line, x |-> x,
     line |-> x.line, eline |-> x.eline]

SendStmt(chan, val) ==
    [kind |-> "SendStmt", chan |-> chan, val |-> val, line |-> chan.line, eline |-> val.eline]

\* l is the line of the keyword
ForStmt(init, cond, post, body, l) ==
    [kind |-> "ForStmt", init |-> init, cond |-> cond, post |-> post, body |-> body,
     line |-> l, eline |-> body.eline]

IfStmt(init, cond, body, else, l) ==
    [kind |-> "IfStmt", init |-> init, cond |-> cond, body |-> body, else |-> else,
     line |-> l, eline |-> IF else # Nil THEN else.eline ELSE body.eline]

CommClause(comm, body, l) ==
    [kind |-> "CommClause", comm |-> comm, body |-> body, line |-> l,
     eline |-> IF Len(body) > 0 THEN body[Len(body)].eline
               ELSE IF comm # Nil THEN comm.eline ELSE l]

SelectStmt(body, l) == [kind |-> "SelectStmt", body |-> body, line |-> l, eline |-> body.eline]

-----------------------------------------------------------------------------
(* The sources offered to the speaker, each with the tree parser.ParseFile *)
(* returns for it.                                                         *)

fmtRunes == <<"f","m","t">>
mainRunes == <<"m","a","i","n">>
fooRunes == <<"f","o","o">>
intRunes == <<"i","n","t">>

\* the program of TestHelloWorld
HelloText ==
    <<"\n","p","a","c","k","a","g","e"," ","m","a","i","n","\n","\n","i",
      "m","p","o","r","t"," ","\"","f","m","t","\"","\n","\n","f","u","n",
      "c"," ","m","a","i","n","(",")"," ","{","\n","\t","f","m","t",".","P",
      "r","i","n","t","f","(","\"","H","e","l","l","o"," ","W","o","r","l",
      "d","!","\\","n","\"",")","\n","}">>

HelloTree(filename) ==
    File(filename, mainRunes,
         <<ImportSpec(Nil, BasicLit(<<"\"","f","m","t","\"">>, 4))>>,
         <<GenDecl("import", <<ImportSpec(Nil, BasicLit(<<"\"","f","m","t","\"">>, 4))>>, 4, 4),
           FuncDecl(Nil, Ident(mainRunes, 6),
                    FuncType(FieldList(<<>>, 6, 6), Nil, 6, 6),
                    BlockStmt(<<ExprStmt(
                        CallExpr(SelectorExpr(Ident(fmtRunes, 7),
                                              Ident(<<"P","r","i","n","t","f">>, 7)),
                                 <<BasicLit(<<"\"","H","e","l","l","o"," ","W","o","r","l","d",
                                              "!","\\","n","\"">>, 7)>>,
                                 7, 7))>>, 6, 8))>>,
         2)

\* the program of TestTopLevelDeclaration
VarIntText ==
    <<"\n","p","a","c","k","a","g","e"," ","m","a","i","n","\n","\n","v",
      "a","r"," ","f","o","o"," ","i","n","t","\n">>

VarIntTree(filename) ==
    File(filename, mainRunes, <<>>,
         <<GenDecl("var", <<ValueSpec(<<Ident(fooRunes, 4)>>, Ident(intRunes, 4), <<>>)>>,
                   4, 4)>>,
         2)

\* the program of TestEmptyInterface
VarIfaceText ==
    <<"\n","p","a","c","k","a","g","e"," ","m","a","i","n","\n","\n","v",
      "a","r"," ","f","o","o"," ","i","n","t","e","r","f","a","c","e","{",
      "}","\n">>

VarIfaceTree(filename) ==
    File(filename, mainRunes, <<>>,
         <<GenDecl("var",
                   <<ValueSpec(<<Ident(fooRunes, 4)>>,
                               InterfaceType(FieldList(<<>>, 4, 4), 4, 4), <<>>)>>,
                   4, 4)>>,
         2)

\* an import, a variable and two functions, f and g
TwoFuncText ==
    <<"p","a","c","k","a","g","e"," ","p","\n","i","m","p","o","r","t"," ",
      "\"","o","s","\"","\n","v","a","r"," ","x"," ","i","n","t","\n","f",
      "u","n","c"," ","f","(",")"," ","{"," ","g","o","t","o"," ","L"," ",
      "}","\n","f","u","n","c"," ","g","(",")"," ","{","\n","\t","h","(",
      "x",")","\n","}","\n">>

TwoFuncTree(filename) ==
    File(filename, <<"p">>,
         <<ImportSpec(Nil, BasicLit(<<"\"","o","s","\"">>, 2))>>,
         <<GenDecl("import", <<ImportSpec(Nil, BasicLit(<<"\"","o","s","\"">>, 2))>>, 2, 2),
           GenDecl("var", <<ValueSpec(<<Ident(<<"x">>, 3)>>, Ident(intRunes, 3), <<>>)>>, 3, 3),
           FuncDecl(Nil, Ident(<<"f">>, 4), FuncType(FieldList(<<>>, 4, 4), Nil, 4, 4),
                    BlockStmt(<<BranchStmt("goto", Ident(<<"L">>, 4), 4)>>, 4, 4)),
           FuncDecl(Nil, Ident(<<"g">>, 5), FuncType(FieldList(<<>>, 5, 5), Nil, 5, 5),
                    BlockStmt(<<ExprStmt(CallExpr(Ident(<<"h">>, 6), <<Ident(<<"x">>, 6)>>,
                                                  6, 6))>>, 5, 7))>>,
         1)

\* a function f whose body holds a declaration statement and a function
\* literal, followed by a variable declaration
NestedText ==
    <<"p","a","c","k","a","g","e"," ","p","\n","f","u","n","c"," ","f","(",
      ")"," ","{","\n","\t","v","a","r"," ","x"," ","i","n","t","\n","\t",
      "f","u","n","c","(",")"," ","{"," ","h","(",")"," ","}","(",")","\n",
      "}","\n","v","a","r"," ","y"," ","i","n","t","\n">>

NestedTree(filename) ==
    File(filename, <<"p">>, <<>>,
         <<FuncDecl(Nil, Ident(<<"f">>, 2), FuncType(FieldList(<<>>, 2, 2), Nil, 2, 2),
                    BlockStmt(<<DeclStmt(GenDecl("var",
                                    <<ValueSpec(<<Ident(<<"x">>, 3)>>, Ident(intRunes, 3),
                                                <<>>)>>, 3, 3)),
                                ExprStmt(CallExpr(
                                    FuncLit(FuncType(FieldList(<<>>, 4, 4), Nil, 4, 4),
                                            BlockStmt(<<ExprStmt(CallExpr(Ident(<<"h">>, 4),
                                                                          <<>>, 4, 4))>>,
                                                      4, 4)),
                                    <<>>, 4, 4))>>, 2, 5)),
           GenDecl("var", <<ValueSpec(<<Ident(<<"y">>, 6)>>, Ident(intRunes, 6), <<>>)>>,
                   6, 6)>>,
         1)

\* a malformed declaration (bytes 10..17, To = 18) followed by a declaration
BadMidText ==
    <<"p","a","c","k","a","g","e"," ","p","\n","f","o","o"," ","b","a","r",
      "\n","v","a","r"," ","x"," ","i","n","t","\n">>

BadMidTree(filename) ==
    File(filename, <<"p">>, <<>>,
         <<BadDecl(10, 18, 2, 3),
           GenDecl("var", <<ValueSpec(<<Ident(<<"x">>, 3)>>, Ident(intRunes, 3), <<>>)>>, 3, 3)>>,
         1)

\* a malformed declaration that runs to the end of the source (To = 13 = len)
BadEOFText ==
    <<"p","a","c","k","a","g","e"," ","p","\n","f","o","o">>

BadEOFTree(filename) ==
    File(filename, <<"p">>, <<>>, <<BadDecl(10, 13, 2, 2)>>, 1)

\* the name LoadString parses under
BufferName == <<"b","u","f","f","e","r">>

\* parser.ParseFile: the tree of a source text
ParseFile(filename, text) ==
    CASE text = HelloText    -> HelloTree(filename)
      [] text = VarIntText   -> VarIntTree(filename)
      [] text = VarIfaceText -> VarIfaceTree(filename)
      [] text = TwoFuncText  -> TwoFuncTree(filename)
      [] text = BadMidText   -> BadMidTree(filename)
      [] text = BadEOFText   -> BadEOFTree(filename)
      [] text = NestedText   -> NestedTree(filename)

\* the strings offered to LoadString and SpeakGoString
Sources == {HelloText, VarIntText, VarIfaceText, TwoFuncText, BadMidText, BadEOFText}

\* the files on the disk, by name
AGo == <<"a",".","g","o">>
MissingGo == <<"m",".","g","o">>
Disk == [n \in {AGo} |-> BadMidText]

\* the file names offered to LoadFile, SpeakGoFile and SpeakGoFunction
FileNames == {AGo, MissingGo}

\* the function names offered to SetTargetFunction and SpeakFunction
FunctionNames == {<<"f">>, <<"g">>}

-----------------------------------------------------------------------------
(* The speaker as a value: the record of the fields of goSpeaker that the  *)
(* narration reads and writes.                                             *)

\* speak: append the phrase (and its pause) to the speech buffer
speak(gsp, speech) ==
    IF gsp.panicked THEN gsp
    ELSE [gsp EXCEPT !.speechBuffer = Append(@, speech)]

\* a run-time panic (index out of range, nil dereference): the call never returns
Panic(gsp) == [gsp EXCEPT !.panicked = TRUE]

isRanged(gsp) ==
    gsp.targetFunction # <<>> \/ (gsp.startLine >= 0 /\ gsp.endLine >= 0)

\* isInRange's loop over the function stack, from Go index i down to 0:
\* reading index i with i >= len(functionStack) panics
RECURSIVE stackScan(_, _, _)
stackScan(gsp, i, found) ==
    IF i < 0 THEN [panic |-> FALSE, val |-> found]
    ELSE IF i >= Len(gsp.functionStack) THEN [panic |-> TRUE, val |-> FALSE]
    ELSE stackScan(gsp, i - 1,
                   found \/ gsp.functionStack[i + 1] = gsp.targetFunction)

\* a comparison that leaves the window's first line out; the range theorems
\* tell it from lineInRange
lineInRangeExclusive(gsp, line) == line > gsp.startLine /\ line <= gsp.endLine

\* the line comparisons of the range filter
lineInRange(gsp, line) == line >= gsp.startLine /\ line <= gsp.endLine

\* The four predicates answer [panic, val]: a nil node panics in n.Pos().
isInRange(gsp, n) ==
    IF gsp.startLine < 0 \/ gsp.endLine < 0 THEN [panic |-> FALSE, val |-> TRUE]
    ELSE LET scan == IF gsp.targetFunction # <<>>
                     THEN stackScan(gsp, Len(gsp.functionStack), FALSE)
                     ELSE [panic |-> FALSE, val |-> TRUE]
         IN  IF scan.panic THEN scan
             ELSE IF ~scan.val THEN [panic |-> FALSE, val |-> FALSE]
             ELSE IF n = Nil THEN [panic |-> TRUE, val |-> FALSE]
             ELSE [panic |-> FALSE,
                   val |-> lineInRange(gsp, n.line) \/ lineInRange(gsp, n.eline)]

isPosInRange(gsp, line) ==
    IF gsp.startLine < 0 \/ gsp.endLine < 0 THEN [panic |-> FALSE, val |-> TRUE]
    ELSE [panic |-> FALSE, val |-> lineInRange(gsp, line)]

isStartInRange(gsp, n) ==
    IF n = Nil THEN [panic |-> TRUE, val |-> FALSE]
    ELSE [panic |-> FALSE, val |-> lineInRange(gsp, n.line)]

isEndInRange(gsp, n) ==
    IF n = Nil THEN [panic |-> TRUE, val |-> FALSE]
    ELSE [panic |-> FALSE, val |-> lineInRange(gsp, n.eline)]

\* "if <predicate> { <then> }": r is the predicate's answer in state gsp
When(gsp, r, then) ==
    IF gsp.panicked THEN gsp
    ELSE IF r.panic THEN Panic(gsp)
    ELSE IF r.val THEN then
    ELSE gsp

\* The bytes of the named file as os.Open and Read give them; a file that
\* cannot be opened reads as nothing.  No file named "buffer" (the name
\* LoadString parses under) is on the disk.
DiskText(filename) == IF filename \in DOMAIN Disk THEN Disk[filename] ELSE <<>>

\* gsp.fileBuffer[from : to+1] and the file read of getFileString, with byte
\* offsets from and to: [panic, text]
getFileString(gsp, from, to) ==
    LET bytesToRead == to - from + 1
    IN  IF bytesToRead <= 0 THEN [panic |-> FALSE, text |-> <<>>]
        ELSE IF gsp.fileBuffer # <<>>
        THEN IF to + 1 > Len(gsp.fileBuffer)
             THEN [panic |-> TRUE, text |-> <<>>]
             ELSE [panic |-> FALSE, text |-> SubSeq(gsp.fileBuffer, from + 1, to + 1)]
        ELSE [panic |-> FALSE,
              text |-> LET disk == DiskText(gsp.file.filename)
                       IN  SubSeq(disk, from + 1,
                                  IF to + 1 > Len(disk) THEN Len(disk) ELSE to + 1)]

speakSymbol(gsp, symbol) == speak(gsp, symbolToSpeech(symbol))

-----------------------------------------------------------------------------
(* Narration.  Every operator takes the speaker and returns the speaker    *)
(* after the call; after a panic nothing more is done.                     *)

\* a for loop over indexes i..n of a list, Body(gsp, i) being its body
RECURSIVE ForEach(_, _, _, _)
ForEach(Body(_, _), gsp, i, n) ==
    IF i > n \/ gsp.panicked THEN gsp
    ELSE ForEach(Body, Body(gsp, i), i + 1, n)

\* The narration is recursive through one operator, Do, which runs the
\* method a call record names; the five recursive methods enter through it.
RECURSIVE Do(_, _)

speakExpr(gsp, expr, isDecl) ==
    IF gsp.panicked \/ expr = Nil THEN gsp
    ELSE Do(gsp, [fn |-> "speakExpr", n |-> expr, isDecl |-> isDecl])

speakStmt(gsp, stmt) ==
    IF gsp.panicked \/ stmt = Nil THEN gsp
    ELSE Do(gsp, [fn |-> "speakStmt", n |-> stmt])

speakDeclaration(gsp, d) ==
    IF gsp.panicked THEN gsp ELSE Do(gsp, [fn |-> "speakDeclaration", n |-> d])

speakFieldList(gsp, fields, takeOrRec, fieldType, parent) ==
    IF gsp.panicked THEN gsp
    ELSE Do(gsp, [fn |-> "speakFieldList", n |-> fields, takeOrRec |-> takeOrRec,
                  fieldType |-> fieldType, parent |-> parent])

speakBlockStmt(gsp, stmts, bodyStart, bodyEnd) ==
    IF gsp.panicked THEN gsp
    ELSE Do(gsp, [fn |-> "speakBlockStmt", n |-> stmts, bodyStart |-> bodyStart,
                  bodyEnd |-> bodyEnd])

\* strings.Replace(s, "\\", " backslash ", -1)
RECURSIVE replaceBackslash(_)
replaceBackslash(rs) ==
    IF rs = <<>> THEN <<>>
    ELSE (IF Head(rs) = "\\"
          THEN <<" ","b","a","c","k","s","l","a","s","h"," ">>
          ELSE <<Head(rs)>>) \o replaceBackslash(Tail(rs))

\* speakString: the value of a basic literal
speakString(gsp, s) ==
    IF Len(s) >= 1 /\ s[1] = "\"" /\ s[Len(s)] = "\""
    THEN IF Len(s) < 2 THEN Panic(gsp)   \* s[1 : len(s)-1] with len(s) = 1
         ELSE LET inner == SubSeq(s, 2, Len(s) - 1)
                  t == replaceBackslash(inner)
                  \* len(strings.TrimSpace(t)) == 0
                  allSpace == \A i \in DOMAIN t : t[i] \in {" ", "\n", "\t"}
              IN  IF Len(t) = 0 THEN speak(gsp, <<"empty", " ", "string">>)
                  ELSE IF allSpace
                  THEN IF Len(t) = 1
                       THEN speak(gsp, <<"string", " ", "with", " ", "one", " ", "blank">>)
                       ELSE speak(gsp, <<"string", " ", "of", " ", Itoa(Len(t)), " ", "blanks">>)
                  ELSE speak(gsp, RunesToStr(t))
    ELSE speak(gsp, RunesToStr(s))

\* speakImportSpecs' loop from the i-th import on
RECURSIVE speakImportLoop(_, _, _, _)
speakImportLoop(gsp, imports, i, spokeImports) ==
    IF i > Len(imports) \/ gsp.panicked THEN gsp
    ELSE LET imp == imports[i]
             r == isInRange(gsp, imp)
         IN  IF r.panic THEN Panic(gsp)
             ELSE IF ~r.val THEN speakImportLoop(gsp, imports, i + 1, spokeImports)
             ELSE LET path == symbolToSpeech(imp.path.value)
                      symSpeech ==
                          IF imp.name # Nil
                          THEN Cat(Cat(path, <<" ", "as", " ">>),
                                   symbolToSpeech(imp.name.name))
                          ELSE path
                      g1 == IF ~spokeImports THEN speak(gsp, <<"imports">>) ELSE gsp
                  IN  speakImportLoop(speak(g1, symSpeech), imports, i + 1, TRUE)

speakImportSpecs(gsp, imports) ==
    IF Len(imports) = 0 THEN gsp ELSE speakImportLoop(gsp, imports, 1, FALSE)

speakValueSpec(gsp, vs, specType) ==
    LET st == IF Len(vs.names) > 1 THEN Cat(specType, <<"s">>) ELSE specType
        g0 == When(gsp, isStartInRange(gsp, vs), speak(gsp, st))
        Body(g, i) ==
            LET g1 == When(g, isInRange(g, vs.names[i]),
                           speak(speakSymbol(g, vs.names[i].name),
                                 <<"of", " ", "type", " ">>))
                g2 == speakExpr(g1, vs.type, TRUE)
            IN  IF Len(vs.values) = 0 THEN g2
                ELSE IF i > Len(vs.values) THEN Panic(g2)    \* vs.Values[i]
                ELSE LET g3 == When(g2, isInRange(g2, vs.values[i]),
                                    speak(g2, <<"equals">>))
                     IN  speakExpr(g3, vs.values[i], FALSE)
    IN  ForEach(Body, g0, 1, Len(vs.names))

speakTypeSpec(gsp, ts) ==
    LET g1 == When(gsp, isInRange(gsp, ts),
                   speak(speakSymbol(speak(gsp, <<"type">>), ts.name.name), <<"is">>))
    IN  speakExpr(g1, ts.type, TRUE)

\* append to / drop the last of gsp.functionStack
pushFunction(gsp, name) ==
    IF gsp.panicked THEN gsp ELSE [gsp EXCEPT !.functionStack = Append(@, name)]

\* a pop that leaves the stack as it is; the balance theorem tells it from
\* popFunction
popFunctionKept(gsp) == gsp

popFunction(gsp) ==
    IF gsp.panicked THEN gsp
    ELSE [gsp EXCEPT !.functionStack = SubSeq(@, 1, Len(@) - 1)]

\* speakDeclaration on a FuncDecl, up to the body: the push of the name and
\* the header
speakFuncDeclHeader(gsp, d) ==
    LET g0 == pushFunction(gsp, d.name.name)
        hdr == speak(g0, Cat(<<"function", " ">>, symbolToSpeech(d.name.name)))
        rcv == IF d.recv # Nil /\ Len(d.recv.list) > 0
               THEN speakFieldList(hdr, d.recv, <<"with">>, <<"receiver">>, Nil)
               ELSE hdr
        par == speakFieldList(rcv, d.type.params, <<"taking", " ">>,
                              <<"parameter">>, d.type)
        res == speakFieldList(par, d.type.results,
                              <<"and", " ", "returning", " ">>, <<"value">>, d.type)
    IN  When(g0, isStartInRange(g0, d), res)

\* the bodyEnd phrase of a function declaration
endFunction(d) == Cat(<<"end", " ", "function", " ">>, symbolToSpeech(d.name.name))

\* the type switch of speakDeclaration
speakDeclarationCases(gsp, d) ==
         CASE d.kind = "FuncDecl" ->
            LET g1 == speakFuncDeclHeader(gsp, d)
                g2 == speakBlockStmt(g1, d.body, <<"function", " ", "body">>,
                                     endFunction(d))
            IN  popFunction(g2)
          [] d.kind = "GenDecl" ->
            CASE d.tok = "const" ->
                    ForEach(LAMBDA g, i : speakValueSpec(g, d.specs[i], <<"constant">>),
                            gsp, 1, Len(d.specs))
              [] d.tok = "var" ->
                    ForEach(LAMBDA g, i : speakValueSpec(g, d.specs[i], <<"var">>),
                            gsp, 1, Len(d.specs))
              [] d.tok = "type" ->
                    ForEach(LAMBDA g, i : speakTypeSpec(g, d.specs[i]),
                            gsp, 1, Len(d.specs))
              [] OTHER -> gsp
          [] d.kind = "BadDecl" ->
            LET r == isInRange(gsp, d)
                t == getFileString(gsp, d.from, d.to)
            IN  IF r.panic THEN Panic(gsp)
                ELSE IF ~r.val THEN gsp
                ELSE IF t.panic THEN Panic(gsp)
                ELSE speakSymbol(speak(gsp, <<"Bad", " ", "declaration">>), t.text)
          [] OTHER -> gsp

\* FieldList.NumFields: a field without names counts once
RECURSIVE NumFields(_)
NumFields(list) ==
    IF list = <<>> THEN 0
    ELSE (IF Len(Head(list).names) = 0 THEN 1 ELSE Len(Head(list).names))
         + NumFields(Tail(list))

speakField(gsp, field) ==
    LET as == IF Len(field.names) > 1 THEN <<"all", " ", "as">> ELSE <<"as", " ">>
        g1 == ForEach(LAMBDA g, i :
                        When(g, isInRange(g, field.names[i]),
                             speak(g, symbolToSpeech(field.names[i].name))),
                      gsp, 1, Len(field.names))
        g2 == When(g1, isInRange(g1, field.type),
                   speakExpr(speak(g1, as), field.type, TRUE))
    IN  IF field.tag # Nil
        THEN speakExpr(When(g2, isInRange(g2, field.tag),
                            speak(g2, <<"with", " ", "tag">>)),
                       field.tag, TRUE)
        ELSE g2

\* the body of speakFieldList
\* a field list narration that says nothing of an absent list; the field list
\* theorem tells it from speakFieldListBody
speakFieldListPresent(gsp, fields, takeOrRec, fieldType, parent) ==
    IF fields = Nil THEN gsp
    ELSE When(gsp, isStartInRange(gsp, fields),
              speak(gsp, Cat(Cat(takeOrRec, <<" ", "no", " ">>), Cat(fieldType, <<"s">>))))

speakFieldListBody(gsp, fields, takeOrRec, fieldType, parent) ==
    IF fields = Nil
    THEN IF parent # Nil
         THEN When(gsp, isStartInRange(gsp, parent),
                   speak(gsp, Cat(Cat(takeOrRec, <<" ", "no", " ">>),
                                  Cat(fieldType, <<"s">>))))
         ELSE gsp
    ELSE LET n == NumFields(fields.list)
             phrase ==
                 IF n = 0
                 THEN Cat(Cat(takeOrRec, <<" ", "no", " ">>), Cat(fieldType, <<"s">>))
                 ELSE IF n = 1
                 THEN Cat(Cat(takeOrRec, <<Itoa(n)>>), Cat(<<" ">>, fieldType))
                 ELSE Cat(Cat(takeOrRec, <<Itoa(n)>>),
                          Cat(<<" ">>, Cat(fieldType, <<"s">>)))
             g1 == When(gsp, isStartInRange(gsp, fields), speak(gsp, phrase))
         IN  ForEach(LAMBDA g, i : speakField(g, fields.list[i]),
                     g1, 1, Len(fields.list))

\* the map binaryOpSpeech
binaryOpSpeech ==
    [k \in {"||", "&&", "==", "!=", "<", "<=", ">", ">=", "+", "-", "|", "^",
            "*", "/", "%", "<<", ">>", "&", "&^"} |->
        CASE k = "||" -> <<"or">>
          [] k = "&&" -> <<"and">>
          [] k = "==" -> <<"equals">>
          [] k = "!=" -> <<"does", " ", "not", " ", "equal">>
          [] k = "<"  -> <<"is", " ", "less", " ", "than">>
          [] k = "<=" -> <<"is", " ", "less", " ", "than", " ", "or", " ", "equal", " ", "to">>
          [] k = ">"  -> <<"is", " ", "greater", " ", "than">>
          [] k = ">=" -> <<"is", " ", "greater", " ", "than", " ", "or", " ", "equal", " ", "to">>
          [] k = "+"  -> <<"plus">>
          [] k = "-"  -> <<"minus">>
          [] k = "|"  -> <<"bitwise", " ", "or">>
          [] k = "^"  -> <<"exclusive", " ", "or">>
          [] k = "*"  -> <<"times">>
          [] k = "/"  -> <<"divided", " ", "by">>
          [] k = "%"  -> <<"modulo">>
          [] k = "<<" -> <<"shifted", " ", "left", " ", "by">>
          [] k = ">>" -> <<"shifted", " ", "right", " ", "by">>
          [] k = "&"  -> <<"bitwise", " ", "and">>
          [] k = "&^" -> <<"bitwise", " ", "and", " ", "not">>]

speakBinaryOp(gsp, op) ==
    IF op \in DOMAIN binaryOpSpeech THEN speak(gsp, binaryOpSpeech[op]) ELSE gsp

\* the map unaryOpSpeech
unaryOpSpeech ==
    [k \in {"+", "-", "!", "^", "*", "&", "<-"} |->
        CASE k = "+"  -> <<"positive">>
          [] k = "-"  -> <<"negative">>
          [] k = "!"  -> <<"not">>
          [] k = "^"  -> <<"bitwise", " ", "not">>
          [] k = "*"  -> <<"star">>
          [] k = "&"  -> <<"ref">>
          [] k = "<-" -> <<"receive", " ", "from", " ", "channel">>]

speakUnaryOp(gsp, op) ==
    IF op \in DOMAIN unaryOpSpeech THEN speak(gsp, unaryOpSpeech[op]) ELSE gsp

\* token.Token.IsOperator, on the tokens a unary expression can carry
IsOperator(op) == op \in {"+", "-", "!", "^", "*", "&", "<-", "~"}

\* a loop over a list of expressions that speaks sep before every element but
\* the first whose start is in range, and each element with speakExpr
speakSeparated(gsp, list, sep, isDecl) ==
    ForEach(LAMBDA g, i :
                speakExpr(IF i > 1
                          THEN When(g, isStartInRange(g, list[i]), speak(g, sep))
                          ELSE g,
                          list[i], isDecl),
            gsp, 1, Len(list))

speakCompositeLit(gsp, c, isDecl) ==
    LET g1 == IF Len(c.elts) = 0
              THEN When(gsp, isStartInRange(gsp, c), speak(gsp, <<"empty">>))
              ELSE gsp
        g2 == IF c.type # Nil THEN speakExpr(g1, c.type, isDecl) ELSE g1
        g3 == IF Len(c.elts) > 0
              THEN When(g2, isPosInRange(g2, c.lbraceLine), speak(g2, <<"containing">>))
              ELSE g2
    IN  speakSeparated(g3, c.elts, <<"comma">>, isDecl)

speakInterfaceType(gsp, iface) ==
    IF iface.methods = Nil \/ Len(iface.methods.list) = 0
    THEN When(gsp, isInRange(gsp, iface), speak(gsp, <<"empty", " ", "interface">>))
    ELSE speakFieldList(When(gsp, isInRange(gsp, iface), speak(gsp, <<"interface">>)),
                        iface.methods, <<"having">>, <<"method">>, iface)

speakStructType(gsp, s) ==
    IF s.fields = Nil \/ Len(s.fields.list) = 0
    THEN When(gsp, isStartInRange(gsp, s), speak(gsp, <<"empty", " ", "struct">>))
    ELSE speakFieldList(When(gsp, isStartInRange(gsp, s), speak(gsp, <<"struct">>)),
                        s.fields, <<"having">>, <<"field">>, s)

\* speakFunctionCall's loop from the i-th argument on
RECURSIVE speakArgLoop(_, _, _, _)
speakArgLoop(gsp, c, i, spokeEllipsis) ==
    IF i > Len(c.args) \/ gsp.panicked THEN gsp
    ELSE LET a == c.args[i]
             g1 == IF i > 1
                   THEN When(gsp, isStartInRange(gsp, a), speak(gsp, <<"comma\t">>))
                   ELSE gsp
             atEllipsis == c.ellipsisOff # 0 /\ c.ellipsisOff < a.off /\ ~spokeEllipsis
             g2 == IF atEllipsis
                   THEN When(g1, isPosInRange(g1, c.ellipsisLine), speak(g1, <<"ellipsis">>))
                   ELSE g1
         IN  speakArgLoop(speakExpr(g2, a, FALSE), c, i + 1,
                          spokeEllipsis \/ atEllipsis)

speakFunctionCall(gsp, c) ==
    LET g1 == IF Len(c.args) = 0
              THEN When(gsp, isStartInRange(gsp, c), speak(gsp, <<"call">>))
              ELSE gsp
        g2 == speakExpr(g1, c.fun, FALSE)
        g3 == IF Len(c.args) > 0
              THEN When(g2, isPosInRange(g2, c.lparenLine), speak(g2, <<"of">>))
              ELSE g2
    IN  speakArgLoop(g3, c, 1, FALSE)

\* the type switch of speakExpr
speakExprCases(gsp, expr, isDecl) ==
    LET v == expr IN
      CASE v.kind = "Ident" ->
            When(gsp, isInRange(gsp, v), speak(gsp, symbolToSpeech(v.name)))
        [] v.kind = "ArrayType" ->
            LET r == isInRange(gsp, v)
                g1 == IF r.panic THEN Panic(gsp)
                      ELSE IF ~r.val THEN gsp
                      ELSE IF v.len = Nil THEN speak(gsp, <<"slice", " ", "of">>)
                      ELSE LET g0 == speakExpr(gsp, v.len, isDecl)
                           IN  When(g0, isEndInRange(g0, v.len),
                                    speak(speak(g0, <<"element">>), <<"array", " ", "of">>))
            IN  speakExpr(g1, v.elt, isDecl)
        [] v.kind = "StarExpr" ->
            speakExpr(When(gsp, isInRange(gsp, v),
                           IF isDecl THEN speak(gsp, <<"pointer", " ", "to">>)
                           ELSE speak(gsp, <<"contents", " ", "of", " ">>)),
                      v.x, isDecl)
        [] v.kind = "MapType" ->
            LET g1 == When(gsp, isStartInRange(gsp, v), speak(gsp, <<"map">>))
                g2 == When(g1, isStartInRange(g1, v.key), speak(g1, <<"with", " ">>))
                g3 == speakExpr(g2, v.key, isDecl)
                g4 == When(g3, isEndInRange(g3, v.key), speak(g3, <<"key">>))
                g5 == When(g4, isStartInRange(g4, v.val), speak(g4, <<"and", " ">>))
                g6 == speakExpr(g5, v.val, isDecl)
            IN  When(g6, isEndInRange(g6, v.val), speak(g6, <<"value">>))
        [] v.kind = "SelectorExpr" ->
            LET g1 == speakExpr(gsp, v.x, isDecl)
                g2 == When(g1, isInRange(g1, v.sel), speak(g1, <<"dot">>))
            IN  speakExpr(g2, v.sel, isDecl)
        [] v.kind = "BinaryExpr" ->
            LET g1 == speakExpr(gsp, v.x, isDecl)
                g2 == When(g1, isPosInRange(g1, v.opLine), speakBinaryOp(g1, v.op))
            IN  speakExpr(g2, v.y, isDecl)
        [] v.kind = "ParenExpr" ->
            LET g1 == When(gsp, isPosInRange(gsp, v.lparenLine),
                           speak(gsp, <<"left", " ", "paren">>))
                g2 == speakExpr(g1, v.x, isDecl)
            IN  When(g2, isPosInRange(g2, v.rparenLine),
                     speak(g2, <<"right", " ", "paren">>))
        [] v.kind = "CallExpr" -> speakFunctionCall(gsp, v)
        [] v.kind = "UnaryExpr" ->
            speakExpr(IF IsOperator(v.op)
                      THEN When(gsp, isPosInRange(gsp, v.opLine), speakUnaryOp(gsp, v.op))
                      ELSE gsp,
                      v.x, isDecl)
        [] v.kind = "BasicLit" ->
            When(gsp, isStartInRange(gsp, v), speakString(gsp, v.value))
        [] v.kind = "SliceExpr" ->
            LET g1 == When(gsp, isStartInRange(gsp, v), speak(gsp, <<"slice">>))
                g2 == speakExpr(g1, v.x, isDecl)
                g3 == When(g2, isPosInRange(g2, v.lbrackLine), speak(g2, <<"from">>))
                g4 == IF v.low # Nil THEN speakExpr(g3, v.low, isDecl)
                      ELSE When(g3, isPosInRange(g3, v.lbrackLine), speak(g3, <<"start">>))
                g5 == IF v.high # Nil
                      THEN speakExpr(When(g4, isInRange(g4, v.high), speak(g4, <<"to">>)),
                                     v.high, isDecl)
                      ELSE When(g4, isPosInRange(g4, v.rbrackLine),
                                speak(g4, <<"to", " ", "end">>))
            IN  IF v.slice3
                THEN speakExpr(When(g5, isInRange(g5, v.max),
                                    speak(g5, <<"with", " ", "cap", " ">>)),
                               v.max, isDecl)
                ELSE g5
        [] v.kind = "CompositeLit" -> speakCompositeLit(gsp, v, isDecl)
        [] v.kind = "KeyValueExpr" ->
            LET g1 == When(gsp, isInRange(gsp, v.key), speak(gsp, <<"key">>))
                g2 == speakExpr(g1, v.key, isDecl)
                g3 == When(g2, isInRange(g2, v.val), speak(g2, <<"with", " ", "value\t">>))
            IN  speakExpr(g3, v.val, isDecl)
        [] v.kind = "FuncLit" ->
            LET g1 == When(gsp, isStartInRange(gsp, v), speak(gsp, <<"lambda">>))
                g2 == speakFieldList(g1, v.type.params, <<"taking">>, <<"parameter">>, v.type)
                g3 == speakFieldList(g2, v.type.results, <<"and", " ", "returning">>,
                                     <<"value">>, v.type)
            IN  speakBlockStmt(g3, v.body, <<"is">>, <<"end", " ", "lambda">>)
        [] v.kind = "IndexExpr" ->
            LET g1 == speakExpr(gsp, v.x, isDecl)
                g2 == When(g1, isPosInRange(g1, v.lbrackLine), speak(g1, <<"sub">>))
            IN  speakExpr(g2, v.index, isDecl)
        [] v.kind = "InterfaceType" -> speakInterfaceType(gsp, v)
        [] v.kind = "StructType" -> speakStructType(gsp, v)
        [] v.kind = "TypeAssertExpr" ->
            LET g1 == speakExpr(gsp, v.x, isDecl)
                \* v.Type != nil && start(v.Type) || (v.X != nil && end(v.X))
                r == IF v.type # Nil /\ isStartInRange(g1, v.type).val
                     THEN [panic |-> FALSE, val |-> TRUE]
                     ELSE IF v.x # Nil THEN isEndInRange(g1, v.x)
                     ELSE [panic |-> FALSE, val |-> FALSE]
            IN  speakExpr(When(g1, r, speak(g1, <<"as", " ", "type">>)), v.type, FALSE)
        [] v.kind = "ChanType" ->
            IF v.dir = "send"
            THEN speakExpr(When(gsp, isPosInRange(gsp, v.arrowLine),
                                speak(gsp, <<"send", " ", "to", " ", "channel">>)),
                           v.elem, isDecl)
            ELSE speakExpr(When(gsp, isPosInRange(gsp, v.arrowLine),
                                speak(gsp, <<"received", " ", "from", " ", "channel">>)),
                           v.elem, isDecl)
        [] v.kind = "Ellipsis" ->
            IF v.elt # Nil
            THEN speakExpr(When(gsp, isStartInRange(gsp, v),
                                speak(gsp, <<"variable", " ", "number", " ", "of">>)),
                           v.elt, isDecl)
            ELSE When(gsp, isInRange(gsp, v), speak(gsp, <<"variable", " ", "number">>))
        [] v.kind = "FuncType" ->
            LET g1 == When(gsp, isStartInRange(gsp, v), speak(gsp, <<"function">>))
                g2 == speakFieldList(g1, v.params, <<"taking", " ">>, <<"parameter">>, v)
            IN  speakFieldList(g2, v.results, <<"and", " ", "returning", " ">>,
                               <<"value">>, v)
        [] v.kind = "BadExpr" ->
            LET t == getFileString(gsp, v.from, v.to)
            IN  IF t.panic THEN Panic(gsp)
                ELSE speakSymbol(When(gsp, isStartInRange(gsp, v),
                                      speak(gsp, <<"Bad", " ", "expression">>)),
                                 t.text)
        [] OTHER -> gsp

\* a for loop over a list of statements, each spoken with speakStmt
speakStmtList(gsp, list) ==
    ForEach(LAMBDA g, i : speakStmt(g, list[i]), gsp, 1, Len(list))

\* the body of speakBlockStmt
speakBlockStmtBody(gsp, stmts, bodyStart, bodyEnd) ==
         LET g1 == When(gsp, isStartInRange(gsp, stmts), speak(gsp, bodyStart))
             g2 == IF g1.panicked THEN g1 ELSE speakStmtList(g1, stmts.list)
         IN  When(g2, isEndInRange(g2, stmts), speak(g2, bodyEnd))

\* an assignment narration that never pairs the sides; the assignment theorem
\* tells it from speakAssignStatement
speakAssignJoined(gsp, s) ==
    LET g0 == When(gsp, isStartInRange(gsp, s), speak(gsp, <<"let">>))
        g1 == ForEach(LAMBDA g, i :
                        speakExpr(IF i > 1
                                  THEN When(g, isStartInRange(g, s.lhs[i]),
                                            speak(g, <<"and">>))
                                  ELSE g,
                                  s.lhs[i], FALSE),
                      g0, 1, Len(s.lhs))
        g2 == When(g1, isStartInRange(g1, s.rhs[1]), speak(g1, <<"equal">>))
    IN  ForEach(LAMBDA g, i : speakExpr(g, s.rhs[i], FALSE), g2, 1, Len(s.rhs))

speakAssignStatement(gsp, s) ==
    LET g0 == When(gsp, isStartInRange(gsp, s), speak(gsp, <<"let">>))
    IN  IF Len(s.lhs) > 1 /\ Len(s.lhs) = Len(s.rhs)
        THEN ForEach(LAMBDA g, i :
                        LET g1 == speakExpr(g, s.lhs[i], FALSE)
                            g2 == When(g1, isEndInRange(g1, s.lhs[i]),
                                       speak(g1, <<"equal">>))
                        IN  speakExpr(g2, s.rhs[i], FALSE),
                     g0, 1, Len(s.lhs))
        ELSE LET g1 == ForEach(LAMBDA g, i :
                                 speakExpr(IF i > 1
                                           THEN When(g, isStartInRange(g, s.lhs[i]),
                                                     speak(g, <<"and">>))
                                           ELSE g,
                                           s.lhs[i], FALSE),
                               g0, 1, Len(s.lhs))
                 g2 == IF Len(s.rhs) > 0
                       THEN When(g1, isStartInRange(g1, s.rhs[1]), speak(g1, <<"equal">>))
                       ELSE g1
             IN  ForEach(LAMBDA g, i : speakExpr(g, s.rhs[i], FALSE),
                         g2, 1, Len(s.rhs))

\* an if narration without the word "if"; the keyword theorem tells it from
\* speakIfStatement
speakIfUnannounced(gsp, s) ==
    speakBlockStmt(speakExpr(gsp, s.cond, FALSE), s.body, <<"then">>,
                   <<"end", " ", "if">>)

\* an if narration that closes the then-branch with "end if" whether or not
\* an else follows; the chain theorem tells it from speakIfStatement
speakIfClosedEarly(gsp, s) ==
    LET g1 == speak(gsp, <<"if">>)
        g2 == speakExpr(g1, s.cond, FALSE)
        g3 == speakBlockStmt(g2, s.body, <<"then">>, <<"end", " ", "if">>)
    IN  IF s.else = Nil THEN g3
        ELSE IF s.else.kind = "BlockStmt"
        THEN speakBlockStmt(g3, s.else, <<"else">>, <<"end", " ", "if">>)
        ELSE speakStmt(speak(g3, <<"else">>), s.else)

speakIfStatement(gsp, s) ==
    LET g1 == When(gsp, isStartInRange(gsp, s), speak(gsp, <<"if">>))
        g2 == IF s.init # Nil
              THEN LET a == When(g1, isStartInRange(g1, s.init),
                                 speak(g1, <<"with", " ", "initializer", " ">>))
                       b == speakStmt(a, s.init)
                   IN  When(b, isEndInRange(b, s.init), speak(b, <<"when">>))
              ELSE g1
        g3 == IF s.cond # Nil THEN speakExpr(g2, s.cond, FALSE) ELSE g2
        g4 == IF s.body # Nil
              THEN speakBlockStmt(g3, s.body, <<"then">>,
                                  IF s.else # Nil THEN <<>> ELSE <<"end", " ", "if">>)
              ELSE g3
    IN  IF s.else # Nil
        THEN IF s.else.kind = "BlockStmt"
             THEN speakBlockStmt(g4, s.else, <<"else">>, <<"end", " ", "if">>)
             ELSE speakStmt(When(g4, isStartInRange(g4, s.else), speak(g4, <<"else">>)),
                            s.else)
        ELSE g4

\* a for narration that closes every loop as a for loop; the closing theorem
\* tells it from speakForLoop
speakForLoopPlain(gsp, fl) ==
    speakBlockStmt(When(gsp, isStartInRange(gsp, fl), speak(gsp, <<"for">>)),
                   fl.body, <<"do">>, <<"end", " ", "for", " ", "loop">>)

speakForLoop(gsp, fl) ==
    IF fl.init = Nil /\ fl.post = Nil
    THEN IF fl.cond = Nil
         THEN speakBlockStmt(When(gsp, isStartInRange(gsp, fl),
                                  speak(gsp, <<"for", " ", "ever">>)),
                             fl.body, <<"do">>, <<"end", " ", "for", " ", "loop">>)
         ELSE speakBlockStmt(
                  speakExpr(When(gsp, isStartInRange(gsp, fl), speak(gsp, <<"while">>)),
                            fl.cond, FALSE),
                  fl.body, <<"do">>, <<"end", " ", "while", " ", "loop">>)
    ELSE LET g1 == When(gsp, isStartInRange(gsp, fl), speak(gsp, <<"for">>))
             \* "if fl.Init == nil { gsp.speakStmt(fl.Init) }"
             g2 == IF fl.init = Nil THEN speakStmt(g1, fl.init) ELSE g1
             g3 == IF fl.cond # Nil
                   THEN speakExpr(When(g2, isStartInRange(g2, fl.cond),
                                       speak(g2, <<"while">>)),
                                  fl.cond, FALSE)
                   ELSE g2
             g4 == IF fl.post # Nil THEN speakStmt(g3, fl.post) ELSE g3
         IN  speakBlockStmt(g4, fl.body, <<"do">>, <<"end", " ", "for", " ", "loop">>)

speakSwitchStatement(gsp, s) ==
    LET g1 == When(gsp, isStartInRange(gsp, s), speak(gsp, <<"switch">>))
        g2 == IF s.init # Nil
              THEN speakStmt(When(g1, isStartInRange(g1, s.init),
                                  speak(g1, <<"with", " ", "initializer">>)),
                             s.init)
              ELSE g1
        g3 == IF s.tag # Nil
              THEN When(g2, isStartInRange(g2, s.tag), speak(g2, <<"on">>))
              ELSE g2
        g4 == speakExpr(g3, s.tag, FALSE)
    IN  speakBlockStmt(g4, s.body, <<>>, <<"end", " ", "switch">>)

speakTypeSwitchStatement(gsp, s) ==
    LET g1 == When(gsp, isStartInRange(gsp, s), speak(gsp, <<"switch">>))
        g2 == IF s.init # Nil
              THEN speakStmt(When(g1, isStartInRange(g1, s.init),
                                  speak(g1, <<"with", " ", "initializer">>)),
                             s.init)
              ELSE g1
        g3 == When(g2, isStartInRange(g2, s.assign), speak(g2, <<"on", " ", "type">>))
        g4 == speakStmt(g3, s.assign)
    IN  speakBlockStmt(g4, s.body, <<>>, <<"end", " ", "type", " ", "switch">>)

speakCommClause(gsp, c) ==
    LET g1 == When(gsp, isStartInRange(gsp, c),
                   IF c.comm # Nil THEN speak(gsp, <<"default">>)
                   ELSE speak(gsp, <<"case">>))
        g2 == speakStmt(g1, c.comm)
    IN  speakStmtList(g2, c.body)

speakSwitchCase(gsp, c) ==
    LET g1 == When(gsp, isStartInRange(gsp, c),
                   IF Len(c.list) = 0 THEN speak(gsp, <<"default">>)
                   ELSE speak(gsp, <<"case">>))
        g2 == speakSeparated(g1, c.list, <<"or">>, FALSE)
    IN  speakStmtList(g2, c.body)

speakSelectStatement(gsp, s) ==
    speakBlockStmt(When(gsp, isStartInRange(gsp, s), speak(gsp, <<"select">>)),
                   s.body, <<>>, <<"end", " ", "select">>)

\* the type switch of speakStmt
speakStmtCases(gsp, stmt) ==
    LET v == stmt IN
      CASE v.kind = "BlockStmt" ->
            LET g1 == When(gsp, isInRange(gsp, v), speak(gsp, <<"begin", " ", "block">>))
                g2 == speakStmtList(g1, v.list)
            IN  When(g2, isInRange(g2, v), speak(g2, <<"end", " ", "block">>))
        [] v.kind = "IfStmt" -> speakIfStatement(gsp, v)
        [] v.kind = "ForStmt" -> speakForLoop(gsp, v)
        [] v.kind = "RangeStmt" ->
            LET g1 == When(gsp, isStartInRange(gsp, v),
                           speak(gsp, <<"range", " ", "over", " ">>))
                g2 == speakExpr(g1, v.x, FALSE)
                withR == IF v.key # Nil THEN isStartInRange(g2, v.key)
                        ELSE IF v.val # Nil THEN isStartInRange(g2, v.val)
                        ELSE [panic |-> FALSE, val |-> FALSE]
                g3 == When(g2, withR, speak(g2, <<"with">>))
                g4 == IF v.key # Nil
                      THEN LET a == When(g3, isStartInRange(g3, v.key), speak(g3, <<"key">>))
                               b == speakExpr(a, v.key, FALSE)
                           IN  IF v.val # Nil
                               THEN When(b, isStartInRange(b, v.val), speak(b, <<"and">>))
                               ELSE b
                      ELSE g3
                g5 == IF v.val # Nil
                      THEN speakExpr(When(g4, isInRange(g4, v.val), speak(g4, <<"value">>)),
                                     v.val, FALSE)
                      ELSE g4
            IN  IF v.body # Nil
                THEN speakBlockStmt(g5, v.body, <<"range", " ", "body">>,
                                    <<"end", " ", "range">>)
                ELSE g5
        [] v.kind = "ReturnStmt" ->
            speakSeparated(When(gsp, isStartInRange(gsp, v), speak(gsp, <<"return">>)),
                           v.results, <<"also">>, FALSE)
        [] v.kind = "AssignStmt" -> speakAssignStatement(gsp, v)
        [] v.kind = "ExprStmt" -> speakExpr(gsp, v.x, FALSE)
        [] v.kind = "BranchStmt" ->
            LET g1 == When(gsp, isStartInRange(gsp, v), speak(gsp, <<v.tok>>))
            IN  IF v.label # Nil
                THEN speakSymbol(When(g1, isInRange(g1, v.label), speak(g1, <<"at">>)),
                                 v.label.name)
                ELSE g1
        [] v.kind = "SwitchStmt" -> speakSwitchStatement(gsp, v)
        [] v.kind = "TypeSwitchStmt" -> speakTypeSwitchStatement(gsp, v)
        [] v.kind = "CommClause" -> speakCommClause(gsp, v)
        [] v.kind = "CaseClause" -> speakSwitchCase(gsp, v)
        [] v.kind = "DeferStmt" ->
            speakExpr(When(gsp, isStartInRange(gsp, v), speak(gsp, <<"defer">>)),
                      v.call, FALSE)
        [] v.kind = "GoStmt" ->
            speakExpr(When(gsp, isStartInRange(gsp, v), speak(gsp, <<"go">>)),
                      v.call, FALSE)
        [] v.kind = "EmptyStmt" ->
            When(gsp, isInRange(gsp, v), speak(gsp, <<"empty">>))
        [] v.kind = "IncDecStmt" ->
            speakExpr(When(gsp, isStartInRange(gsp, v),
                           IF v.tok = "++" THEN speak(gsp, <<"increment">>)
                           ELSE speak(gsp, <<"decrement">>)),
                      v.x, FALSE)
        [] v.kind = "LabeledStmt" ->
            speakStmt(When(gsp, isStartInRange(gsp, v),
                           speakSymbol(speak(gsp, <<"label">>), v.label.name)),
                      v.stmt)
        [] v.kind = "SelectStmt" -> speakSelectStatement(gsp, v)
        [] v.kind = "SendStmt" ->
            LET g1 == When(gsp, isStartInRange(gsp, v), speak(gsp, <<"send">>))
                g2 == speakExpr(g1, v.val, FALSE)
                g3 == When(g2, isInRange(g2, v.chan), speak(g2, <<"to", " ", "channel">>))
            IN  speakExpr(g3, v.chan, FALSE)
        [] v.kind = "BadStmt" ->
            LET t == getFileString(gsp, v.from, v.to)
            IN  IF t.panic THEN Panic(gsp)
                ELSE speakSymbol(When(gsp, isStartInRange(gsp, v),
                                      speak(gsp, <<"Bad", " ", "statement">>)),
                                 t.text)
        [] v.kind = "DeclStmt" -> speakDeclaration(gsp, v.decl)
        [] OTHER -> gsp

Do(gsp, c) ==
    CASE c.fn = "speakExpr" -> speakExprCases(gsp, c.n, c.isDecl)
      [] c.fn = "speakStmt" -> speakStmtCases(gsp, c.n)
      [] c.fn = "speakDeclaration" -> speakDeclarationCases(gsp, c.n)
      [] c.fn = "speakFieldList" ->
            speakFieldListBody(gsp, c.n, c.takeOrRec, c.fieldType, c.parent)
      [] c.fn = "speakBlockStmt" ->
            speakBlockStmtBody(gsp, c.n, c.bodyStart, c.bodyEnd)

\* speakFile up to the loop over the declarations
speakFileHeader(gsp, f) ==
    LET g1 == IF f.name # <<>>
              THEN When(gsp, isStartInRange(gsp, f),
                        speak(gsp, Cat(<<"package", " ">>, RunesToStr(f.name))))
              ELSE gsp
        g2 == IF ~g1.skipImports THEN speakImportSpecs(g1, f.imports) ELSE g1
    IN  IF ~isRanged(g2) /\ g2.startLine < 0 /\ Len(f.decls) > 0
        THEN speak(g2, <<"declarations">>)
        ELSE g2

speakFile(gsp, f) ==
    ForEach(LAMBDA g, i : speakDeclaration(g, f.decls[i]), speakFileHeader(gsp, f),
            1, Len(f.decls))

-----------------------------------------------------------------------------
(* The public operations, on the speaker as a value.                       *)

\* MakeGoSpeaker / MakeGoSpeakerDefault
MakeGoSpeaker(skip) ==
    [skipImports |-> skip, targetFunction |-> <<>>, startLine |-> -1, endLine |-> -1,
     speechBuffer |-> <<>>, fileBuffer |-> <<>>, functionStack |-> <<>>,
     file |-> Nil, panicked |-> FALSE]

doLoadFile(gsp, filename) ==
    IF filename \notin DOMAIN Disk
    THEN speak(gsp, Cat(<<"I", " ", "can't", " ", "find", " ", "the", " ", "file", " ",
                          "named", " ">>, speakableFilename(filename)))
    ELSE [gsp EXCEPT !.file = ParseFile(filename, Disk[filename])]

doLoadString(gsp, s) ==
    [gsp EXCEPT !.fileBuffer = s, !.file = ParseFile(BufferName, s)]

\* speakFile on gsp.file; file.Name on a nil file is a nil dereference.
\* speakBuffer, which follows, hands the buffer to /usr/bin/say and changes nothing.
doSpeakAll(gsp) ==
    IF gsp.file = Nil THEN Panic(gsp) ELSE speakFile(gsp, gsp.file)

doSpeakFunction(gsp, function) ==
    doSpeakAll([gsp EXCEPT !.targetFunction = function])

doSpeakRange(gsp, start, end) ==
    doSpeakAll([gsp EXCEPT !.startLine = start, !.endLine = end])

doSetRange(gsp, start, end) == [gsp EXCEPT !.startLine = start, !.endLine = end]

doSetTargetFunction(gsp, function) == [gsp EXCEPT !.targetFunction = function]

doSpeakGoFile(gsp, filename) ==
    LET g == doLoadFile(gsp, filename)
    IN  IF g.file # Nil THEN doSpeakAll(g) ELSE g

doSpeakGoFunction(gsp, filename, function) ==
    LET g == doLoadFile(gsp, filename)
    IN  IF g.file # Nil THEN doSpeakFunction(g, function) ELSE g

doSpeakGoString(gsp, s) ==
    LET g == doLoadString(gsp, s)
    IN  IF g.file # Nil THEN doSpeakAll(g) ELSE g

GetSpeechString(gsp) == gsp.speechBuffer

-----------------------------------------------------------------------------
(* The state machine: one speaker, and the calls made on it.               *)

\* the line numbers offered to SetRange and SpeakRange
LineArgs == {-1, 1, MaxLine - 1, MaxLine}

\* the speaker of the current state
Speaker ==
    [skipImports |-> skipImports, targetFunction |-> targetFunction,
     startLine |-> startLine, endLine |-> endLine, speechBuffer |-> speechBuffer,
     fileBuffer |-> fileBuffer, functionStack |-> functionStack,
     file |-> file, panicked |-> panicked]

NoArg == [src |-> <<>>, function |-> <<>>, start |-> 0, end |-> 0]

\* The call op(arg) takes the speaker to g.  last records the call, the speech
\* buffer it found, whether it repeats the call before it, whether it ran
\* the parser and speakFile, and the number of calls so far.
Record(op, arg, g, parsed, traversed, calls) ==
    /\ ~panicked
    /\ skipImports' = g.skipImports
    /\ targetFunction' = g.targetFunction
    /\ startLine' = g.startLine
    /\ endLine' = g.endLine
    /\ speechBuffer' = g.speechBuffer
    /\ fileBuffer' = g.fileBuffer
    /\ functionStack' = g.functionStack
    /\ file' = g.file
    /\ panicked' = g.panicked
    /\ other' = other
    /\ last' = [op |-> op, arg |-> arg, buf |-> speechBuffer,
                repeat |-> (last.op = op /\ last.arg = arg),
                parsed |-> parsed, traversed |-> traversed, calls |-> calls]

Call(op, arg, g, parsed, traversed) ==
    /\ last.calls < MaxCalls
    /\ Record(op, arg, g, parsed, traversed, last.calls + 1)

\* a speaker from MakeGoSpeaker, imports skipped or not, and a second one made
\* with the other setting
Init ==
    \E skip \in BOOLEAN :
        /\ skipImports = MakeGoSpeaker(skip).skipImports
        /\ targetFunction = MakeGoSpeaker(skip).targetFunction
        /\ startLine = MakeGoSpeaker(skip).startLine
        /\ endLine = MakeGoSpeaker(skip).endLine
        /\ speechBuffer = MakeGoSpeaker(skip).speechBuffer
        /\ fileBuffer = MakeGoSpeaker(skip).fileBuffer
        /\ functionStack = MakeGoSpeaker(skip).functionStack
        /\ file = MakeGoSpeaker(skip).file
        /\ panicked = MakeGoSpeaker(skip).panicked
        /\ other = MakeGoSpeaker(~skip)
        /\ last = [op |-> "MakeGoSpeaker", arg |-> NoArg, buf |-> <<>>,
                   repeat |-> FALSE, parsed |-> FALSE, traversed |-> FALSE, calls |-> 0]

LoadFile ==
    \E filename \in FileNames :
        Call("LoadFile", [NoArg EXCEPT !.src = filename], doLoadFile(Speaker, filename),
             filename \in DOMAIN Disk, FALSE)

LoadString ==
    \E s \in Sources :
        Call("LoadString", [NoArg EXCEPT !.src = s], doLoadString(Speaker, s), TRUE, FALSE)

SpeakAll == Call("SpeakAll", NoArg, doSpeakAll(Speaker), FALSE, file # Nil)

SpeakFunction ==
    \E function \in FunctionNames :
        Call("SpeakFunction", [NoArg EXCEPT !.function = function],
             doSpeakFunction(Speaker, function), FALSE, file # Nil)

SpeakRange ==
    \E start \in LineArgs, end \in LineArgs :
        Call("SpeakRange", [NoArg EXCEPT !.start = start, !.end = end],
             doSpeakRange(Speaker, start, end), FALSE, file # Nil)

SetRange ==
    \E start \in LineArgs, end \in LineArgs :
        Call("SetRange", [NoArg EXCEPT !.start = start, !.end = end],
             doSetRange(Speaker, start, end), FALSE, FALSE)

SetTargetFunction ==
    \E function \in FunctionNames \cup {<<>>} :
        Call("SetTargetFunction", [NoArg EXCEPT !.function = function],
             doSetTargetFunction(Speaker, function), FALSE, FALSE)

SpeakGoFile ==
    \E filename \in FileNames :
        Call("SpeakGoFile", [NoArg EXCEPT !.src = filename],
             doSpeakGoFile(Speaker, filename),
             filename \in DOMAIN Disk, doLoadFile(Speaker, filename).file # Nil)

SpeakGoFunction ==
    \E filename \in FileNames, function \in FunctionNames :
        Call("SpeakGoFunction", [NoArg EXCEPT !.src = filename, !.function = function],
             doSpeakGoFunction(Speaker, filename, function),
             filename \in DOMAIN Disk, doLoadFile(Speaker, filename).file # Nil)

SpeakGoString ==
    \E s \in Sources :
        Call("SpeakGoString", [NoArg EXCEPT !.src = s], doSpeakGoString(Speaker, s),
             TRUE, TRUE)

Next ==
    \/ LoadFile
    \/ LoadString
    \/ SpeakAll
    \/ SpeakFunction
    \/ SpeakRange
    \/ SetRange
    \/ SetTargetFunction
    \/ SpeakGoFile
    \/ SpeakGoFunction
    \/ SpeakGoString

Spec == Init /\ [][Next]_vars

-----------------------------------------------------------------------------
(* The range filter alone: a speaker whose window is set, by SetRange and  *)
(* SetTargetFunction, to every line range over -1..MaxLine and every       *)
(* target function.                                                        *)

WindowSetRange ==
    \E start \in -1..MaxLine, end \in -1..MaxLine :
        Record("SetRange", [NoArg EXCEPT !.start = start, !.end = end],
               doSetRange(Speaker, start, end), FALSE, FALSE, 0)

WindowSetTargetFunction ==
    \E function \in FunctionNames \cup {<<>>} :
        Record("SetTargetFunction", [NoArg EXCEPT !.function = function],
               doSetTargetFunction(Speaker, function), FALSE, FALSE, 0)

WindowNext == WindowSetRange \/ WindowSetTargetFunction

WindowSpec == Init /\ [][WindowNext]_vars

-----------------------------------------------------------------------------
(* The narration of one node: a speaker whose window is set by SetRange    *)
(* and SetTargetFunction narrates, on an empty speech buffer, one          *)
(* statement or one field list.                                            *)

\* the speaker has narrated its node
Narrated == last.op \in {"speakStmt", "speakFieldList", "speakDeclaration"}

\* the line the statements start on
StmtLine == 2

LhsNames == <<"x", "y", "z", "p", "q">>
RhsNames == <<"u", "v", "w", "r", "s">>

\* the assignments with n left-hand and m right-hand identifiers
Assignment(n, m) ==
    AssignStmt([i \in 1..n |-> Ident(<<LhsNames[i]>>, StmtLine)],
               [i \in 1..m |-> Ident(<<RhsNames[i]>>, StmtLine)])

Assignments == {Assignment(n, m) : n \in 1..MaxSides, m \in 1..MaxSides}

\* the line of the keyword of the if statements
IfLine == 4

\* "if c { }" with the condition on the line of the keyword or on the next,
\* and the closing brace a line below the condition
Ifs ==
    {IfStmt(Nil, Ident(<<"c">>, l), BlockStmt(<<>>, l, l + 1), Nil, IfLine) :
        l \in IfLine..(IfLine + 1)}

\* the bodies "{ }" and "{ break }" that open on line l
Bodies(l) ==
    {BlockStmt(<<>>, l, l + 1),
     BlockStmt(<<BranchStmt("break", Nil, l + 1)>>, l, l + 2)}

\* "for x = u; c; x++ { .. }" with each of the three clauses there or not
Fors ==
    {ForStmt(init, cond, post, body, StmtLine) :
        init \in {Nil, Assignment(1, 1)},
        cond \in {Nil, Ident(<<"c">>, StmtLine)},
        post \in {Nil, IncDecStmt(Ident(<<"x">>, StmtLine), "++")},
        body \in Bodies(StmtLine)}

\* the clauses "case ch <- v:", "case <-ch:" and "default:" of a select, with
\* no statement or with "break" after the colon
CommClauses ==
    {CommClause(comm, body, StmtLine) :
        comm \in {Nil,
                  SendStmt(Ident(<<"ch">>, StmtLine), Ident(<<"v">>, StmtLine)),
                  ExprStmt(UnaryExpr("<-", Ident(<<"ch">>, StmtLine)))},
        body \in {<<>>, <<BranchStmt("break", Nil, StmtLine)>>}}

\* the calls "h()", "h(u)", "h(u, v)", and, with the last argument spread,
\* "h(u...)" and "h(u, v...)", on StmtLine; h is at byte offset 1 of the
\* line, u at 3, v at 6, and "..." right after the last argument
Calls ==
    LET h == Ident(<<"h">>, StmtLine)
        u == At(Ident(<<"u">>, StmtLine), 3)
        v == At(Ident(<<"v">>, StmtLine), 6)
    IN  {ExprStmt(CallExpr(h, args, StmtLine, StmtLine)) :
            args \in {<<>>, <<u>>, <<u, v>>}}
        \cup {ExprStmt(SpreadCall(h, <<u>>, StmtLine, 4, StmtLine, StmtLine)),
               ExprStmt(SpreadCall(h, <<u, v>>, StmtLine, 7, StmtLine, StmtLine))}

\* the conditions of the ifs of a chain, in order
CondNames == <<"c", "d", "e", "g", "k">>

\* The chain "if c B else if d B ... [else B]" from its i-th if on: n ifs, all
\* on IfLine, each with the block B as its body, closed by an else block or not
RECURSIVE IfChain(_, _, _, _)
IfChain(i, n, closed, body) ==
    IfStmt(Nil, Ident(<<CondNames[i]>>, IfLine), body,
           IF i < n THEN IfChain(i + 1, n, closed, body)
           ELSE IF closed THEN body
           ELSE Nil,
           IfLine)

IfChains ==
    {IfChain(1, n, closed, body) :
        n \in 1..MaxChain, closed \in BOOLEAN,
        body \in {BlockStmt(<<>>, IfLine, IfLine),
                  BlockStmt(<<BranchStmt("break", Nil, IfLine)>>, IfLine, IfLine)}}

\* the pointer "*t" on StmtLine
PointerT == StarExpr(Ident(<<"t">>, StmtLine), StmtLine)

\* the call "h(arg)" on StmtLine
CallH(arg) == ExprStmt(CallExpr(Ident(<<"h">>, StmtLine), <<arg>>, StmtLine, StmtLine))

\* Statements with the pointer type "*t" in a type position: "var x *t",
\* "type n *t", "h(func(p *t) { })", "h(u.(*t))" and "h([]*t{})"
TypePointers ==
    {DeclStmt(GenDecl("var", <<ValueSpec(<<Ident(<<"x">>, StmtLine)>>, PointerT, <<>>)>>,
                      StmtLine, StmtLine)),
     DeclStmt(GenDecl("type", <<TypeSpec(Ident(<<"n">>, StmtLine), PointerT)>>,
                      StmtLine, StmtLine)),
     CallH(FuncLit(FuncType(FieldList(<<Field(<<Ident(<<"p">>, StmtLine)>>,
                                              PointerT, Nil)>>,
                                      StmtLine, StmtLine),
                            Nil, StmtLine, StmtLine),
                   BlockStmt(<<>>, StmtLine, StmtLine))),
     CallH(TypeAssertExpr(Ident(<<"u">>, StmtLine), PointerT, StmtLine)),
     CallH(CompositeLit(ArrayType(Nil, PointerT, StmtLine), <<>>, StmtLine, StmtLine))}

\* statements with the dereference "*t" in an expression: "h(*t)" and
\* "return *t"
Dereferences ==
    {CallH(PointerT),
     [kind |-> "ReturnStmt", results |-> <<PointerT>>, line |-> StmtLine,
      eline |-> StmtLine]}

\* The declarations "var x1, .., xn int", "var x1, .., xn int = u1, .., un" and,
\* for n > 1, "var x1, .., xn int = h()", one call that gives all the values
ValueSpecDecls ==
    LET names(n) == [i \in 1..n |-> Ident(<<LhsNames[i]>>, StmtLine)]
        h == CallExpr(Ident(<<"h">>, StmtLine), <<>>, StmtLine, StmtLine)
        decl(n, values) ==
            DeclStmt(GenDecl("var",
                             <<ValueSpec(names(n), Ident(intRunes, StmtLine), values)>>,
                             StmtLine, StmtLine))
    IN  {decl(n, <<>>) : n \in 1..MaxSides}
        \cup {decl(n, [i \in 1..n |-> Ident(<<RhsNames[i]>>, StmtLine)]) :
                 n \in 1..MaxSides}
        \cup {decl(n, <<h>>) : n \in 2..MaxSides}

\* The declaration, from StmtLine on,
\*     type n struct {
\*         f struct {
\*             g int
\*         }
\*     }
\* in which the type of field f spans three lines
NestedStructDecl ==
    LET l == StmtLine
        inner == StructType(FieldList(<<Field(<<Ident(<<"g">>, l + 2)>>,
                                              Ident(intRunes, l + 2), Nil)>>,
                                      l + 1, l + 3),
                            l + 1, l + 3)
        outer == StructType(FieldList(<<Field(<<Ident(<<"f">>, l + 1)>>, inner, Nil)>>,
                                      l, l + 4),
                            l, l + 4)
    IN  DeclStmt(GenDecl("type", <<TypeSpec(Ident(<<"n">>, l), outer)>>, l, l + 4))

\* The declaration, from StmtLine on,
\*     var x [
\*         k]
\*         int
\* in which the array type spans three lines and its length is on the second
LongArrayDecl ==
    LET l == StmtLine
    IN  DeclStmt(GenDecl("var",
                         <<ValueSpec(<<Ident(<<"x">>, l)>>,
                                     ArrayType(Ident(<<"k">>, l + 1),
                                               Ident(intRunes, l + 2), l),
                                     <<>>)>>,
                         l, l + 2))

\* the statements offered to speakStmt
Statements ==
    Assignments \cup Ifs \cup Fors \cup CommClauses \cup Calls \cup IfChains
    \cup TypePointers \cup Dereferences \cup ValueSpecDecls
    \cup {NestedStructDecl, LongArrayDecl}

StmtStep ==
    \E stmt \in Statements :
        /\ ~Narrated
        /\ Record("speakStmt", [node |-> stmt], speakStmt(Speaker, stmt), FALSE, FALSE, 0)

\* the empty field lists, "()", that start on line l or the line after it
EmptyFieldLists(l) == {FieldList(<<>>, k, k) : k \in l..(l + 1)}

\* the function types "func()" and "func() ()" whose keyword is on StmtLine,
\* with the parameter list and the result list on that line or after it
FuncTypes ==
    {FuncType(params, results, StmtLine,
              IF results # Nil THEN results.eline ELSE params.eline) :
        params \in EmptyFieldLists(StmtLine),
        results \in {Nil} \cup EmptyFieldLists(StmtLine)}

\* speakFieldList as speakExpr calls it on the parameters and on the results
\* of a function type
FieldListStep ==
    \E type \in FuncTypes, results \in BOOLEAN :
        /\ ~Narrated
        /\ LET arg == IF results
                      THEN [node |-> type.results,
                            takeOrRec |-> <<"and", " ", "returning", " ">>,
                            fieldType |-> <<"value">>, parent |-> type]
                      ELSE [node |-> type.params, takeOrRec |-> <<"taking", " ">>,
                            fieldType |-> <<"parameter">>, parent |-> type]
           IN  Record("speakFieldList", arg,
                      speakFieldList(Speaker, arg.node, arg.takeOrRec, arg.fieldType,
                                     arg.parent),
                      FALSE, FALSE, 0)

\* the function declarations "func f()", which has no body, and "func f() { }",
\* on StmtLine
FuncDeclarations ==
    LET name == Ident(<<"f">>, StmtLine)
        type == FuncType(FieldList(<<>>, StmtLine, StmtLine), Nil, StmtLine, StmtLine)
    IN  {FuncDecl(Nil, name, type, Nil),
         FuncDecl(Nil, name, type, BlockStmt(<<>>, StmtLine, StmtLine))}

\* speakDeclaration as speakFile calls it on a top-level declaration
DeclStep ==
    \E d \in FuncDeclarations :
        /\ ~Narrated
        /\ Record("speakDeclaration", [node |-> d], speakDeclaration(Speaker, d),
                  FALSE, FALSE, 0)

NodeNext ==
    \/ ~Narrated /\ WindowSetRange
    \/ ~Narrated /\ WindowSetTargetFunction
    \/ StmtStep
    \/ FieldListStep
    \/ DeclStep

NodeSpec == Init /\ [][NodeNext]_vars

-----------------------------------------------------------------------------
(* One narration pass, a step at a time: the window is set, a program is   *)
(* loaded, and speakFile runs its header, then each top-level declaration. *)
(* A function declaration is taken in steps: the push and the header, the  *)
(* opening of the body, each statement of the body, the closing of the     *)
(* body, the pop.  last.op is the step taken last; last.arg holds the      *)
(* speaker the pass started from, the index of the declaration in hand,    *)
(* the index of the statement in hand and the pushes and pops so far.      *)

\* the strings offered to the pass
PassSources == {HelloText, TwoFuncText, BadMidText, NestedText}

\* the steps after which speakFile's loop dispatches the next declaration
DispatchOps == {"speakFile", "speakDeclaration", "pop"}

\* the steps inside speakDeclaration's FuncDecl case, between push and pop
BodyOps == {"FuncDecl", "bodyStart", "bodyStmt", "bodyEnd"}

InPass == last.op \in DispatchOps \cup BodyOps

\* the declaration in hand
PassDecl == file.decls[last.arg.decl]

PassSetRange == file = Nil /\ WindowSetRange

PassSetTargetFunction == file = Nil /\ WindowSetTargetFunction

PassLoadString ==
    \E s \in PassSources :
        /\ file = Nil
        /\ Record("LoadString", [NoArg EXCEPT !.src = s], doLoadString(Speaker, s),
                  TRUE, FALSE, 0)

\* speakFile, up to its loop
PassSpeakFile ==
    /\ last.op = "LoadString"
    /\ Record("speakFile",
              [start |-> Speaker, decl |-> 1, stmt |-> 0, pushes |-> 0, pops |-> 0],
              speakFileHeader(Speaker, file), FALSE, TRUE, 0)

\* speakDeclaration on a declaration that is not a function
PassSpeakDeclaration ==
    /\ last.op \in DispatchOps
    /\ last.arg.decl <= Len(file.decls)
    /\ PassDecl.kind # "FuncDecl"
    /\ Record("speakDeclaration", [last.arg EXCEPT !.decl = @ + 1],
              speakDeclaration(Speaker, PassDecl), FALSE, TRUE, 0)

\* speakDeclaration on a function: the push and the header
PassFuncDecl ==
    /\ last.op \in DispatchOps
    /\ last.arg.decl <= Len(file.decls)
    /\ PassDecl.kind = "FuncDecl"
    /\ Record("FuncDecl", [last.arg EXCEPT !.pushes = @ + 1],
              speakFuncDeclHeader(Speaker, PassDecl), FALSE, TRUE, 0)

\* speakBlockStmt on the function's body: bodyStart
PassBodyStart ==
    /\ last.op = "FuncDecl"
    /\ Record("bodyStart", [last.arg EXCEPT !.stmt = 1],
              When(Speaker, isStartInRange(Speaker, PassDecl.body),
                   speak(Speaker, <<"function", " ", "body">>)),
              FALSE, TRUE, 0)

\* speakBlockStmt on the function's body: one statement of the list
PassBodyStmt ==
    /\ last.op \in {"bodyStart", "bodyStmt"}
    /\ last.arg.stmt <= Len(PassDecl.body.list)
    /\ Record("bodyStmt", [last.arg EXCEPT !.stmt = @ + 1],
              speakStmt(Speaker, PassDecl.body.list[last.arg.stmt]), FALSE, TRUE, 0)

\* speakBlockStmt on the function's body: bodyEnd
PassBodyEnd ==
    /\ last.op \in {"bodyStart", "bodyStmt"}
    /\ last.arg.stmt > Len(PassDecl.body.list)
    /\ Record("bodyEnd", last.arg,
              When(Speaker, isEndInRange(Speaker, PassDecl.body),
                   speak(Speaker, endFunction(PassDecl))),
              FALSE, TRUE, 0)

\* the pop that ends speakDeclaration's FuncDecl case
PassPop ==
    /\ last.op = "bodyEnd"
    /\ Record("pop", [last.arg EXCEPT !.decl = @ + 1, !.stmt = 0, !.pops = @ + 1],
              popFunction(Speaker), FALSE, TRUE, 0)

PassNext ==
    \/ PassSetRange
    \/ PassSetTargetFunction
    \/ PassLoadString
    \/ PassSpeakFile
    \/ PassSpeakDeclaration
    \/ PassFuncDecl
    \/ PassBodyStart
    \/ PassBodyStmt
    \/ PassBodyEnd
    \/ PassPop

PassSpec == Init /\ [][PassNext]_vars

-----------------------------------------------------------------------------
(* Two speakers.  MakeGoSpeaker returns the address of a new goSpeaker     *)
(* each time it is called; the variables of the module are the speaker at  *)
(* the first address and other is the speaker at the second.  Two clients, *)
(* one holding each address, call the public operations in any order.      *)
(* last.arg holds the address called, the call, and the calls made so far  *)
(* through each address.                                                   *)

\* a MakeGoSpeaker that hands out one shared goSpeaker; the independence
\* theorem tells it from newGoSpeaker
sharedGoSpeaker(made) == 0

\* the address of the goSpeaker literal of MakeGoSpeaker, given the number of
\* speakers made before: a new object each time
newGoSpeaker(made) == made

\* the addresses the two clients hold
Handles == <<newGoSpeaker(0), newGoSpeaker(1)>>

\* the speaker at an address
Deref(h) == IF h = 0 THEN Speaker ELSE other

\* the calls the clients make
TwoCallSet ==
    {[op |-> "LoadString", src |-> s] : s \in {HelloText, VarIntText}}
    \cup {[op |-> "SetRange", start |-> 4, end |-> 4]}
    \cup {[op |-> "SetTargetFunction", function |-> mainRunes]}
    \cup {[op |-> "SpeakAll"]}

\* the call c on the speaker gsp
Apply(gsp, c) ==
    CASE c.op = "LoadString" -> doLoadString(gsp, c.src)
      [] c.op = "SetRange" -> doSetRange(gsp, c.start, c.end)
      [] c.op = "SetTargetFunction" -> doSetTargetFunction(gsp, c.function)
      [] c.op = "SpeakAll" -> doSpeakAll(gsp)

\* the calls made so far through each address
Histories == IF last.op = "MakeGoSpeaker" THEN <<<<>>, <<>>>> ELSE last.arg.own

\* Client i calls c through its address: the speaker at that address takes
\* the call.  A panic of either speaker ends the program.
TwoCall(i, c) ==
    LET h == Handles[i]
        g == Apply(Deref(h), c)
        this == IF h = 0 THEN g ELSE Speaker
    IN  /\ ~panicked
        /\ ~other.panicked
        /\ last.calls < TwoCalls
        /\ skipImports' = this.skipImports
        /\ targetFunction' = this.targetFunction
        /\ startLine' = this.startLine
        /\ endLine' = this.endLine
        /\ speechBuffer' = this.speechBuffer
        /\ fileBuffer' = this.fileBuffer
        /\ functionStack' = this.functionStack
        /\ file' = this.file
        /\ panicked' = this.panicked
        /\ other' = IF h = 0 THEN other ELSE g
        /\ last' = [op |-> c.op,
                    arg |-> [client |-> i, call |-> c,
                             own |-> [Histories EXCEPT ![i] = Append(@, c)]],
                    buf |-> Deref(h).speechBuffer, repeat |-> FALSE,
                    parsed |-> c.op = "LoadString", traversed |-> c.op = "SpeakAll",
                    calls |-> last.calls + 1]

FirstCall == \E c \in TwoCallSet : TwoCall(1, c)

SecondCall == \E c \in TwoCallSet : TwoCall(2, c)

TwoNext == FirstCall \/ SecondCall

TwoSpec == Init /\ [][TwoNext]_vars

-----------------------------------------------------------------------------
(* What the tests read from the speech buffer.                             *)

\* stripPause, stripNewlines and splitCommands of the tests: the words of the
\* speech text, without pause markers, quote marks and whitespace
RECURSIVE splitCommands(_)
splitCommands(buffer) ==
    IF buffer = <<>> THEN <<>>
    ELSE SelectSeq(Head(buffer),
                   LAMBDA c : ~IsBlank(c) /\ c # "\"" /\ c # "\t")
         \o splitCommands(Tail(buffer))

\* hasSubsequence of the tests: target is a contiguous run of source
hasSubsequence(source, target) ==
    \E i \in 0..Len(source) :
        /\ i + Len(target) <= Len(source)
        /\ SubSeq(source, i + 1, i + Len(target)) = target

-----------------------------------------------------------------------------
(* Properties.                                                             *)

\* the speaker has no line range
NoLineRange == startLine < 0 \/ endLine < 0

\* the spans of the nodes the range filter is asked about
NodeSpans ==
    {[kind |-> "Node", line |-> a, eline |-> b] :
        a \in 1..(MaxLine + 1), b \in 1..(MaxLine + 1)}

HelloWords ==
    <<"package", "main", "imports", "fumt", "declarations", "function", "main",
      "taking", "no", "parameters", "and", "returning", "no", "values",
      "function", "body", "fumt", "dot", "Printf", "of", "Hello", "World!",
      "backslash", "n", "end", "function", "main">>

\* C1: SpeakGoString of the hello-world source on a speaker with no window,
\* an empty speech buffer and imports not skipped leaves exactly the words
\* package main imports fumt declarations function main taking no parameters
\* and returning no values function body fumt dot Printf of Hello World!
\* backslash n end function main.
C1_HelloWorldWords ==
    (/\ last.op = "SpeakGoString"
     /\ last.arg.src = HelloText
     /\ last.buf = <<>>
     /\ ~skipImports
     /\ ~isRanged(Speaker))
    => (~panicked /\ splitCommands(speechBuffer) = HelloWords)

\* C2: SpeakGoString of "var foo int" (of "var foo interface{}") on a speaker
\* with no window leaves a speech buffer whose words contain the contiguous
\* run var foo of type int (var foo of type empty interface).
C2_VarOfType ==
    (/\ last.op = "SpeakGoString"
     /\ last.arg.src \in {VarIntText, VarIfaceText}
     /\ last.buf = <<>>
     /\ ~isRanged(Speaker))
    => hasSubsequence(splitCommands(speechBuffer),
                      <<"var", "foo", "of", "type">>
                      \o (IF last.arg.src = VarIntText THEN <<"int">>
                          ELSE <<"empty", "interface">>))

\* C3: with no target function and no line range, isInRange, isPosInRange,
\* isStartInRange and isEndInRange are true of every node and every position.
C3_UnboundedAllVisible ==
    (targetFunction = <<>> /\ NoLineRange)
    => /\ \A n \in NodeSpans :
            /\ isInRange(Speaker, n).val
            /\ isStartInRange(Speaker, n).val
            /\ isEndInRange(Speaker, n).val
       /\ \A p \in 1..(MaxLine + 1) : isPosInRange(Speaker, p).val

\* C4: under a line range [s, e] with 0 <= s <= e and no target function,
\* isStartInRange(n) is s <= start line of n <= e, isEndInRange(n) is
\* s <= end line of n <= e, isInRange(n) is the disjunction of the two, and
\* isPosInRange(p) is s <= line of p <= e; a node that starts before s and
\* ends after e is not visible.
C4_LineRangePredicates ==
    (targetFunction = <<>> /\ 0 <= startLine /\ startLine <= endLine)
    => /\ \A n \in NodeSpans :
            /\ ~isInRange(Speaker, n).panic
            /\ ~isStartInRange(Speaker, n).panic
            /\ ~isEndInRange(Speaker, n).panic
            /\ isStartInRange(Speaker, n).val
                 <=> (startLine <= n.line /\ n.line <= endLine)
            /\ isEndInRange(Speaker, n).val
                 <=> (startLine <= n.eline /\ n.eline <= endLine)
            /\ isInRange(Speaker, n).val
                 <=> (isStartInRange(Speaker, n).val \/ isEndInRange(Speaker, n).val)
            /\ (n.line < startLine /\ n.eline > endLine) => ~isInRange(Speaker, n).val
       /\ \A p \in 1..(MaxLine + 1) :
            isPosInRange(Speaker, p).val <=> (startLine <= p /\ p <= endLine)

\* SetRange has set a one-line window that lies in a node's span, and the node
\* is not visible while the node on that line is
C4_StraddledWindow ==
    /\ last.op = "SetRange"
    /\ targetFunction = <<>>
    /\ 0 <= startLine
    /\ startLine = endLine
    /\ \E n \in NodeSpans :
          /\ n.line < startLine
          /\ n.eline > endLine
          /\ ~isInRange(Speaker, n).val
    /\ \E n \in NodeSpans :
          /\ n.line = startLine
          /\ isStartInRange(Speaker, n).val
          /\ isInRange(Speaker, n).val

\* a speaker on the tree f and the source text, with every line in its window
WholeWindow(f, text) ==
    [MakeGoSpeaker(FALSE) EXCEPT !.file = f, !.fileBuffer = text,
                                 !.startLine = 0, !.endLine = MaxLine + 1]

\* the phrases that the declarations of the functions named function give
\* when every line of them is in the window
FunctionPhrases(f, text, function) ==
    UNION {Range(speakDeclaration(WholeWindow(f, text), f.decls[k]).speechBuffer) :
             k \in {j \in DOMAIN f.decls :
                      /\ f.decls[j].kind = "FuncDecl"
                      /\ f.decls[j].name.name = function}}

\* C5: after SpeakFunction(f) or SpeakGoFunction(.., f) on a speaker with an
\* empty speech buffer and no line range, every phrase of the speech buffer
\* comes from the declaration of the function named f.
C5_OnlyTargetFunction ==
    (/\ last.op \in {"SpeakFunction", "SpeakGoFunction"}
     /\ last.traversed
     /\ last.buf = <<>>
     /\ NoLineRange)
    => (/\ ~panicked
        /\ Range(speechBuffer) \subseteq FunctionPhrases(file, fileBuffer, targetFunction))

\* C6: SpeakAll, SpeakFunction or SpeakRange called a second time in a row
\* with the same arguments leaves the speech text as the first call left it.
C6_RepeatedNarration ==
    (last.repeat /\ last.op \in {"SpeakAll", "SpeakFunction", "SpeakRange"})
    => GetSpeechString(Speaker) = last.buf

\* the speech buffer without the "declarations" header
WithoutHeader(buffer) == SelectSeq(buffer, LAMBDA ph : ph # <<"declarations">>)

\* C7: SpeakAll on a speaker with no window and an empty speech buffer gives,
\* header aside, the phrases that SpeakRange(1, last line of the tree) gives
\* on a new speaker with the same tree.
C7_WholeRangeSameAsNoWindow ==
    (/\ last.op \in {"SpeakAll", "SpeakGoString"}
     /\ last.traversed
     /\ last.buf = <<>>
     /\ ~isRanged(Speaker)
     /\ ~panicked)
    => LET ranged == doSpeakRange([MakeGoSpeaker(skipImports) EXCEPT
                                     !.file = file, !.fileBuffer = fileBuffer],
                                  1, file.eline)
       IN  /\ ~ranged.panicked
           /\ WithoutHeader(speechBuffer) = WithoutHeader(ranged.speechBuffer)

\* C8: SpeakRange(start, end) with 1 <= end < start on a speaker with a
\* loaded tree appends nothing to the speech buffer, does not walk the tree
\* and does not parse.
C8_InvalidRangeRejected ==
    (/\ last.op = "SpeakRange"
     /\ 1 <= last.arg.end
     /\ last.arg.end < last.arg.start
     /\ file # Nil)
    => (/\ speechBuffer = last.buf
        /\ ~last.traversed
        /\ ~last.parsed
        /\ ~panicked)

\* C9: SpeakGoFile or SpeakGoFunction on the name of a file that does not
\* exist appends the one phrase "I can't find the file named m dot go" and
\* narrates no tree, whatever was loaded before.
C9_MissingFileOnePhrase ==
    (last.op \in {"SpeakGoFile", "SpeakGoFunction"} /\ last.arg.src = MissingGo)
    => (/\ speechBuffer =
             Append(last.buf, <<"I", " ", "can't", " ", "find", " ", "the", " ", "file",
                                " ", "named", " ", "m", " ", "dot", " ", "go">>)
        /\ ~last.traversed
        /\ ~panicked)

\* the phrases of the declarations after the k-th of the tree f, on a speaker
\* with no window
FollowingDeclarations(f, text, k) ==
    ForEach(LAMBDA g, i : speakDeclaration(g, f.decls[i]),
            [MakeGoSpeaker(FALSE) EXCEPT !.file = f, !.fileBuffer = text],
            k + 1, Len(f.decls)).speechBuffer

\* C10: SpeakGoString of a source with a malformed declaration, on a speaker
\* with no window and an empty speech buffer, runs to its end and leaves, for
\* the malformed declaration, "Bad declaration", then the transcription of
\* the source text from its From to its To, then the narration of the
\* declarations after it.
C10_MalformedDeclaration ==
    (/\ last.op = "SpeakGoString"
     /\ last.arg.src \in {BadMidText, BadEOFText}
     /\ last.buf = <<>>
     /\ ~isRanged(Speaker))
    => LET text == last.arg.src
           f == ParseFile(BufferName, text)
       IN  /\ ~panicked
           /\ \A k \in DOMAIN f.decls :
                f.decls[k].kind = "BadDecl"
                => \E i \in DOMAIN speechBuffer :
                      /\ speechBuffer[i] = <<"Bad", " ", "declaration">>
                      /\ i + 1 \in DOMAIN speechBuffer
                      /\ speechBuffer[i + 1] =
                           symbolToSpeech(SubSeq(text, f.decls[k].from + 1, f.decls[k].to))
                      /\ SubSeq(speechBuffer, i + 2, Len(speechBuffer)) =
                           FollowingDeclarations(f, text, k)

\* every line of the node n is in the line range, and no target function is set
AllVisible(n) ==
    /\ targetFunction = <<>>
    /\ 0 <= startLine
    /\ startLine <= n.line
    /\ n.eline <= endLine

\* one phrase for each of the words
Phrases(words) == [i \in DOMAIN words |-> <<words[i]>>]

RECURSIVE PairedSides(_, _)
\* L1 equal R1 ... Ln equal Rn
PairedSides(lhs, rhs) ==
    IF lhs = <<>> THEN <<>>
    ELSE <<Head(lhs).name[1], "equal", Head(rhs).name[1]>>
         \o PairedSides(Tail(lhs), Tail(rhs))

RECURSIVE JoinedSide(_)
\* L1 and L2 ... and Ln
JoinedSide(lhs) ==
    IF Len(lhs) = 1 THEN <<lhs[1].name[1]>>
    ELSE <<Head(lhs).name[1], "and">> \o JoinedSide(Tail(lhs))

\* C11: with every token visible, an assignment of n left-hand and m
\* right-hand identifiers is narrated "let", then L1 equal R1 ... Ln equal Rn
\* when n = m > 1, and otherwise L1 and ... and Ln, one "equal", R1 ... Rm.
C11_Assignment ==
    (/\ last.op = "speakStmt"
     /\ last.arg.node.kind = "AssignStmt"
     /\ AllVisible(last.arg.node))
    => LET lhs == last.arg.node.lhs
           rhs == last.arg.node.rhs
       IN  /\ ~panicked
           /\ speechBuffer =
                Phrases(<<"let">> \o
                        (IF Len(lhs) = Len(rhs) /\ Len(lhs) > 1
                         THEN PairedSides(lhs, rhs)
                         ELSE JoinedSide(lhs) \o <<"equal">>
                              \o [i \in DOMAIN rhs |-> rhs[i].name[1]]))

\* speakStmt has narrated a paired assignment and one whose sides differ in
\* length, every token visible
C11_PairedNarrated ==
    /\ last.op = "speakStmt"
    /\ last.arg.node.kind = "AssignStmt"
    /\ AllVisible(last.arg.node)
    /\ Len(last.arg.node.lhs) = 2
    /\ Len(last.arg.node.rhs) = 2
    /\ speechBuffer = Phrases(<<"let", "x", "equal", "u", "y", "equal", "v">>)

\* the field lists to set against fields under the function type parent: the
\* empty lists for an absent one, the absent list for an empty one
Counterparts(fields, parent) ==
    IF fields = Nil THEN EmptyFieldLists(parent.line) ELSE {Nil}

\* what speakFieldList leaves of fields on the speaker of this state with an
\* empty speech buffer
FieldListSpeech(fields) ==
    speakFieldList([Speaker EXCEPT !.speechBuffer = <<>>], fields, last.arg.takeOrRec,
                   last.arg.fieldType, last.arg.parent).speechBuffer

\* the words "<tag> no <fieldType>s"
NoFieldsWords ==
    SelectSeq(last.arg.takeOrRec, LAMBDA c : ~IsBlank(c))
    \o <<"no", last.arg.fieldType[1] \o "s">>

\* C12 as stated: under every window, an absent field list and an empty one
\* leave the same speech, the phrase "<tag> no <fieldType>s" or nothing.
C12_AbsentAsEmptyEveryWindow ==
    last.op = "speakFieldList"
    => /\ splitCommands(speechBuffer) \in {<<>>, NoFieldsWords}
       /\ \A twin \in Counterparts(last.arg.node, last.arg.parent) :
            FieldListSpeech(twin) = speechBuffer

\* C12: under every window, an absent field list and an empty field list that
\* starts on the line its function type starts on leave the same speech, the
\* phrase "<tag> no <fieldType>s" or nothing.
C12_AbsentAsEmptySameLine ==
    (/\ last.op = "speakFieldList"
     /\ (last.arg.node # Nil => last.arg.node.line = last.arg.parent.line))
    => /\ ~panicked
       /\ splitCommands(speechBuffer) \in {<<>>, NoFieldsWords}
       /\ Len(speechBuffer) <= 1
       /\ \A twin \in Counterparts(last.arg.node, last.arg.parent) :
            \/ (twin # Nil /\ twin.line # last.arg.parent.line)
            \/ FieldListSpeech(twin) = speechBuffer

\* speakFieldList has spoken "and returning no values" of an absent result list
C12_AbsentSpoken ==
    /\ last.op = "speakFieldList"
    /\ last.arg.node = Nil
    /\ splitCommands(speechBuffer) = <<"and", "returning", "no", "values">>
    /\ \E twin \in Counterparts(last.arg.node, last.arg.parent) :
          FieldListSpeech(twin) = speechBuffer

\* the speaker has a line range and no target function
LineRangeOnly == targetFunction = <<>> /\ 0 <= startLine /\ 0 <= endLine

\* the line is in the line range
InWindow(line) == startLine <= line /\ line <= endLine

\* the phrase that opens the narration of a statement
Keyword(stmt) ==
    CASE stmt.kind = "AssignStmt" -> <<"let">>
      [] stmt.kind = "IfStmt" -> <<"if">>
      [] stmt.kind = "SelectStmt" -> <<"select">>
      [] stmt.kind = "ForStmt" ->
            IF stmt.init # Nil \/ stmt.post # Nil THEN <<"for">>
            ELSE IF stmt.cond # Nil THEN <<"while">>
            ELSE <<"for", " ", "ever">>

WholePass ==
    /\ last.op \in {"SpeakAll", "SpeakFunction", "SpeakRange", "SpeakGoString",
                    "SpeakGoFile", "SpeakGoFunction"}
    /\ last.traversed
    /\ last.buf = <<>>
    /\ ~panicked

\* the import specs of the loaded tree that the window shows: none under a
\* target function (no function is entered yet), those with a line in the
\* line range under a line range, all of them under no window
VisibleImports ==
    SelectSeq(file.imports,
              LAMBDA imp :
                  /\ targetFunction = <<>>
                  /\ \/ NoLineRange
                     \/ InWindow(imp.line)
                     \/ InWindow(imp.eline))

\* the phrase of an import spec: its path, and " as " and its name if it has one
ImportPhrase(imp) ==
    IF imp.name = Nil THEN symbolToSpeech(imp.path.value)
    ELSE Cat(symbolToSpeech(imp.path.value),
             Cat(<<" ", "as", " ">>, symbolToSpeech(imp.name.name)))

\* C15: a narration pass speaks "imports" at most once, and exactly when
\* imports are not skipped and the window shows an import spec; the phrases
\* of the import specs the window shows, one each, follow it.
C15_ImportsHeader ==
    WholePass
    => LET headers == {k \in DOMAIN speechBuffer : speechBuffer[k] = <<"imports">>}
           shown == [i \in DOMAIN VisibleImports |-> ImportPhrase(VisibleImports[i])]
       IN  /\ Cardinality(headers) <= 1
           /\ headers # {} <=> (~skipImports /\ shown # <<>>)
           /\ \A k \in headers :
                SubSeq(speechBuffer, k + 1, k + Len(shown)) = shown
           /\ \A imp \in Range(file.imports) :
                ImportPhrase(imp) \in Range(speechBuffer)
                <=> (~skipImports /\ ImportPhrase(imp) \in Range(shown))

\* C16: a target function and a line range (startLine >= 0 and endLine >= 0)
\* are never both set on one speaker.
C16_WindowsExclusive == ~(targetFunction # <<>> /\ startLine >= 0 /\ endLine >= 0)

\* C18: with every token visible, a for statement with an init clause is
\* narrated "for", the init statement, "while" and the condition if there is
\* one, the post statement if there is one, "do", the body, "end for loop".
C18_ForWithInit ==
    (/\ last.op = "speakStmt"
     /\ last.arg.node.kind = "ForStmt"
     /\ last.arg.node.init # Nil
     /\ AllVisible(last.arg.node))
    => LET fl == last.arg.node
       IN  speechBuffer =
             Phrases(<<"for", "let", "x", "equal", "u">>
                     \o (IF fl.cond # Nil THEN <<"while", "c">> ELSE <<>>)
                     \o (IF fl.post # Nil THEN <<"increment", "x">> ELSE <<>>)
                     \o <<"do">>
                     \o (IF fl.body.list # <<>> THEN <<"break">> ELSE <<>>))
             \o <<<<"end", " ", "for", " ", "loop">>>>

\* C19: with every token visible, the narration of a for statement ends with
\* "end while loop" when the statement has a condition and neither an init nor
\* a post clause, and with "end for loop" otherwise.
C19_LoopClosing ==
    (/\ last.op = "speakStmt"
     /\ last.arg.node.kind = "ForStmt"
     /\ AllVisible(last.arg.node))
    => LET fl == last.arg.node
       IN  /\ ~panicked
           /\ speechBuffer # <<>>
           /\ speechBuffer[Len(speechBuffer)] =
                (IF fl.cond # Nil /\ fl.init = Nil /\ fl.post = Nil
                 THEN <<"end", " ", "while", " ", "loop">>
                 ELSE <<"end", " ", "for", " ", "loop">>)

\* speakStmt has closed "for c { break }" as a while loop
C19_WhileClosed ==
    /\ last.op = "speakStmt"
    /\ last.arg.node.kind = "ForStmt"
    /\ AllVisible(last.arg.node)
    /\ last.arg.node.init = Nil
    /\ last.arg.node.post = Nil
    /\ speechBuffer = <<<<"while">>, <<"c">>, <<"do">>, <<"break">>,
                        <<"end", " ", "while", " ", "loop">>>>

\* C20: with every token visible, a comm clause is narrated "case" when it has
\* a communication statement and "default" when it has none, then the
\* communication statement, then the body.
C20_CommClauseLead ==
    (/\ last.op = "speakStmt"
     /\ last.arg.node.kind = "CommClause"
     /\ AllVisible(last.arg.node))
    => LET c == last.arg.node
           fresh == [Speaker EXCEPT !.speechBuffer = <<>>]
       IN  speechBuffer =
             <<IF c.comm # Nil THEN <<"case">> ELSE <<"default">>>>
             \o speakStmt(fresh, c.comm).speechBuffer
             \o speakStmtList(fresh, c.body).speechBuffer

\* the pass has dispatched every declaration
PassEnded == last.op \in DispatchOps /\ last.arg.decl > Len(file.decls)

\* the function declarations of the program
FuncDecls == {i \in DOMAIN file.decls : file.decls[i].kind = "FuncDecl"}

\* C17: the function-name stack is balanced.  It is empty whenever speakFile
\* dispatches a top-level declaration and when the pass has ended; from the
\* push to the pop of function F, and so while the nodes of F's body are
\* visited, F's name is on top; the pops never outnumber the pushes, the
\* stack holds the pushes not yet popped, and a pass that has ended has
\* pushed and popped once for each function declaration.
C17_StackBalanced ==
    InPass =>
        /\ last.op \in DispatchOps => functionStack = <<>>
        /\ last.op \in BodyOps =>
              /\ functionStack # <<>>
              /\ functionStack[Len(functionStack)] = PassDecl.name.name
        /\ last.arg.pops <= last.arg.pushes
        /\ Len(functionStack) = last.arg.pushes - last.arg.pops
        /\ PassEnded =>
              /\ last.arg.pushes = Cardinality(FuncDecls)
              /\ last.arg.pops = Cardinality(FuncDecls)

\* the pass has left function f, whose body holds a declaration statement and
\* a function literal, and has narrated the declaration after it
C17_NestedPassEnded ==
    /\ PassEnded
    /\ ~panicked
    /\ fileBuffer = NestedText
    /\ last.arg.pushes = 1
    /\ last.arg.pops = 1
    /\ <<"end", " ", "lambda">> \in Range(speechBuffer)
    /\ <<"end", " ", "function", " ", "f">> \in Range(speechBuffer)

\* the pass taken step by step ends where speakFile ends
PassAsSpeakFile ==
    (PassEnded \/ (InPass /\ panicked)) => Speaker = speakFile(last.arg.start, file)

\* the calls replayed, in order, on the speaker gsp alone
RECURSIVE Replay(_, _)
Replay(gsp, calls) ==
    IF calls = <<>> THEN gsp ELSE Replay(Apply(gsp, Head(calls)), Tail(calls))

\* C14: speaker instances are independent.  After any interleaving of calls
\* on two speakers, each speaker is in the state its own calls, made alone on
\* a new speaker, lead to: speech buffer, window, function stack, loaded tree
\* and all; so no call on one speaker changes the other.
C14_InstancesIndependent ==
    /\ Deref(Handles[1]) = Replay(MakeGoSpeaker(skipImports), Histories[1])
    /\ Deref(Handles[2]) = Replay(MakeGoSpeaker(~skipImports), Histories[2])

\* both speakers have loaded and narrated, their calls interleaved, and hold
\* different speech
C14_BothNarrated ==
    /\ last.op = "SpeakAll"
    /\ Histories[1] = <<[op |-> "LoadString", src |-> HelloText], [op |-> "SpeakAll"]>>
    /\ Histories[2] = <<[op |-> "LoadString", src |-> VarIntText], [op |-> "SpeakAll"]>>
    /\ last.buf = <<>>
    /\ speechBuffer # <<>>
    /\ other.speechBuffer # <<>>
    /\ speechBuffer # other.speechBuffer

\* the number of phrases of the speech buffer that are the phrase
Count(phrase) == Cardinality({i \in DOMAIN speechBuffer : speechBuffer[i] = phrase})

\* C21: with every token visible, a call whose last argument is spread is
\* narrated with "ellipsis" exactly once, and a call without a spread is
\* narrated without it.
C21_EllipsisOnce ==
    (/\ last.op = "speakStmt"
     /\ last.arg.node.kind = "ExprStmt"
     /\ last.arg.node.x.kind = "CallExpr"
     /\ AllVisible(last.arg.node))
    => Count(<<"ellipsis">>) = (IF last.arg.node.x.ellipsisOff # 0 THEN 1 ELSE 0)

\* the phrases of a block of the chains
BlockPhrases(b) == IF b.list = <<>> THEN <<>> ELSE <<<<"break">>>>

\* "if" COND "then" BODY, then "end if", or "else" BLOCK "end if", or "else"
\* and the rest of the chain
RECURSIVE ChainPhrases(_)
ChainPhrases(s) ==
    <<<<"if">>, s.cond.name, <<"then">>>> \o BlockPhrases(s.body)
    \o (IF s.else = Nil THEN <<<<"end", " ", "if">>>>
        ELSE IF s.else.kind = "BlockStmt"
        THEN <<<<"else">>>> \o BlockPhrases(s.else) \o <<<<"end", " ", "if">>>>
        ELSE <<<<"else">>>> \o ChainPhrases(s.else))

\* the phrases of the speech buffer that hold text
Spoken == SelectSeq(speechBuffer, LAMBDA phrase : phrase # <<>>)

\* C22: with every token visible, an if / else-if / else chain is narrated
\* with "end if" exactly once, as its last phrase; a then-branch followed by
\* an else does not say "end if", and every branch after the first is
\* introduced by "else".
C22_ChainClosedOnce ==
    (/\ last.op = "speakStmt"
     /\ last.arg.node.kind = "IfStmt"
     /\ AllVisible(last.arg.node))
    => /\ ~panicked
       /\ Spoken = ChainPhrases(last.arg.node)
       /\ Count(<<"end", " ", "if">>) = 1
       /\ speechBuffer[Len(speechBuffer)] = <<"end", " ", "if">>

\* speakStmt has narrated "if c { break } else if d { break } else { break }"
C22_ElseIfElseNarrated ==
    /\ last.op = "speakStmt"
    /\ last.arg.node.kind = "IfStmt"
    /\ AllVisible(last.arg.node)
    /\ Spoken = <<<<"if">>, <<"c">>, <<"then">>, <<"break">>,
                  <<"else">>, <<"if">>, <<"d">>, <<"then">>, <<"break">>,
                  <<"else">>, <<"break">>, <<"end", " ", "if">>>>

\* C23: a visible pointer in a type position (the type of a variable, of a
\* parameter, of a type declaration, of a type assertion, of a composite
\* literal in an expression) is narrated "pointer to", and a visible
\* dereference in an expression "contents of".
C23_PointerByPosition ==
    (/\ last.op = "speakStmt"
     /\ last.arg.node \in TypePointers \cup Dereferences
     /\ AllVisible(last.arg.node))
    => IF last.arg.node \in TypePointers
       THEN /\ Count(<<"pointer", " ", "to">>) = 1
            /\ Count(<<"contents", " ", "of", " ">>) = 0
       ELSE /\ Count(<<"pointer", " ", "to">>) = 0
            /\ Count(<<"contents", " ", "of", " ">>) = 1

\* the phrases of the names of a value spec from the i-th on: the name,
\* "of type", the type and, when the i-th initializer exists, "equals" and
\* the initializer
RECURSIVE NamePhrases(_, _)
NamePhrases(vs, i) ==
    IF i > Len(vs.names) THEN <<>>
    ELSE <<vs.names[i].name, <<"of", " ", "type", " ">>, <<"int">>>>
         \o (IF i > Len(vs.values) THEN <<>>
             ELSE IF vs.values[i].kind = "Ident"
             THEN <<<<"equals">>, vs.values[i].name>>
             ELSE <<<<"equals">>, <<"call">>, <<"h">>>>)
         \o NamePhrases(vs, i + 1)

\* C24: with every token visible, the narration of a value spec with n names
\* and 0, n or (for n > 1) one initializer completes: the keyword once, "vars"
\* for n > 1 and "var" for n = 1, then for each name the name, "of type", the
\* type and, when the name's initializer exists, "equals" and the initializer.
C24_ValueSpecNarrated ==
    (/\ last.op = "speakStmt"
     /\ last.arg.node \in ValueSpecDecls
     /\ AllVisible(last.arg.node))
    => LET vs == last.arg.node.decl.specs[1]
       IN  /\ ~panicked
           /\ speechBuffer =
                <<IF Len(vs.names) > 1 THEN <<"vars">> ELSE <<"var">>>>
                \o NamePhrases(vs, 1)

\* the identifier tokens of the two multi-line declarations, with their lines
IdentTokens(decl) ==
    IF decl = NestedStructDecl
    THEN {[name |-> <<"n">>, line |-> StmtLine],
          [name |-> <<"f">>, line |-> StmtLine + 1],
          [name |-> <<"g">>, line |-> StmtLine + 2],
          [name |-> intRunes, line |-> StmtLine + 2]}
    ELSE {[name |-> <<"x">>, line |-> StmtLine],
          [name |-> <<"k">>, line |-> StmtLine + 1],
          [name |-> intRunes, line |-> StmtLine + 2]}

\* C25: visibility is decided for each token: under a line range, every
\* identifier whose own line is in the range is spoken, wherever the nodes
\* around it start and end.
C25_TokenVisibility ==
    (/\ last.op = "speakStmt"
     /\ last.arg.node \in {NestedStructDecl, LongArrayDecl}
     /\ LineRangeOnly)
    => /\ ~panicked
       /\ \A token \in IdentTokens(last.arg.node) :
             InWindow(token.line) => symbolToSpeech(token.name) \in Range(speechBuffer)

\* the contents of the function-name stack isInRange is asked under
Stacks == {<<>>} \cup {<<f>> : f \in FunctionNames}
          \cup {<<f, g>> : f \in FunctionNames, g \in FunctionNames}

\* C26: isInRange gives an answer, and never fails, under every window (a
\* target function together with a line range included) and with every
\* content of the function-name stack.
C26_IsInRangeTotal ==
    \A stack \in Stacks, n \in NodeSpans :
        ~isInRange([Speaker EXCEPT !.functionStack = stack], n).panic

\* C27: the narration of a function declaration without a body completes
\* under every window, says neither "function body" nor "end function NAME",
\* and leaves the function-name stack popped.
C27_BodilessFunction ==
    (/\ last.op = "speakDeclaration"
     /\ last.arg.node.kind = "FuncDecl"
     /\ last.arg.node.body = Nil)
    => /\ ~panicked
       /\ <<"function", " ", "body">> \notin Range(speechBuffer)
       /\ endFunction(last.arg.node) \notin Range(speechBuffer)
       /\ functionStack = <<>>

=============================================================================
